---------------------------- MODULE Spec2Model ----------------------------
(***************************************************************************)
(* A model of discord-ext-native-voice: the signalling engine              *)
(* (src/src/protocol.rs), the shared lifecycle register (src/src/state.rs),*)
(* the media thread and packet builder (src/src/player.rs), the payload    *)
(* codec (src/src/payloads.rs) and the host facade (src/src/lib.rs).       *)
(*                                                                         *)
(* Conventions.                                                            *)
(*  - A Rust Result is a record [ok, val, err]; a ProtocolError is a       *)
(*    record [kind, code, msg] (kind "Ok" stands for "no error").          *)
(*  - A u32 is a record [hi, lo] of two 16-bit limbs, because the model    *)
(*    checker's integers are 32-bit signed; u16 arithmetic is done modulo  *)
(*    65536 on plain integers.                                             *)
(*  - An f64 of the HELLO payload is a record [ms, half]: the value        *)
(*    ms + (IF half THEN 1/2 ELSE 0), so that fractional and negative      *)
(*    intervals exist and the cast `as u64` is not the identity.           *)
(*  - A 32-byte secret key is a sequence of KeyLen bytes.                  *)
(*  - Each call that takes the engine mutex (poll, close, speaking, the    *)
(*    snapshot of the session) is one atomic step; every read or write of  *)
(*    the lifecycle register by the media thread is a step of its own.     *)
(***************************************************************************)
EXTENDS Integers, Sequences, FiniteSets, TLC

(***************************************************************************)
(* Program constants                                                       *)
(***************************************************************************)
\* state.rs: the five values of PlayingState.state
DISCONNECTED == 0
CONNECTED == 1
PLAYING == 2
PAUSED == 3
FINISHED == 4

\* payloads.rs: Opcode
IDENTIFY == 0
SELECT_PROTOCOL == 1
READY == 2
HEARTBEAT == 3
SESSION_DESCRIPTION == 4
SPEAKING == 5
HEARTBEAT_ACK == 6
RESUME == 7
HELLO == 8
RESUMED == 9
CLIENT_CONNECT == 12
CLIENT_DISCONNECT == 13
\* the frame written by WebSocket::close is not an opcoded text frame
CLOSE_FRAME == 255

\* payloads.rs: EncryptionMode, ordered by its discriminant
XSalsa20Poly1305 == 0
XSalsa20Poly1305Suffix == 1
XSalsa20Poly1305Lite == 2

\* payloads.rs: SpeakingFlags
MICROPHONE == 1
SPEAKING_OFF == 0

\* player.rs
SAMPLES_PER_FRAME == 960
BUFFER_OFFSET == 12
TAG_SIZE == 16
NONCE_SIZE == 24

\* protocol.rs
MaxHeartbeatInterval == 5000
ReadTimeoutMs == 5000
AcksCapacity == 20
MaxRetries == 5
NormalClosure == 1000

\* u16 / u64
U16Modulus == 65536
\* u64::MAX. The checker's integers are 32-bit: the largest of them stands
\* for u64::MAX, which the engine only compares with and takes minima of.
U64_MAX == 2147483647

(***************************************************************************)
(* Bounds of the model                                                     *)
(***************************************************************************)
KeyLen == 2          \* bytes of a secret key (32 in the program)
MaxModes == 2        \* length of the mode list of a READY
MaxPolls == 4        \* poll() calls of one thread in one behaviour
MaxPlays == 2        \* play() calls in one behaviour
MaxRuns == 2         \* run() calls on one Connection
MaxPlayPolls == 1    \* poll() calls of run() in a behaviour with play()
MaxFrames == 2       \* frames a decoder of the short runs yields
MaxPlayFrames == 1   \* frames a decoder yields in a behaviour with play()
MaxMediaPolls == 2   \* poll() calls of run() beside a failing media thread
MaxDrops == 1        \* dropped sends of one media thread
LongStart == 65534   \* packets a long-running builder has sent already
TsStart == 4473924   \* packets of a builder whose timestamp is about to wrap
MaxOpusLen == 28     \* bytes of the longest opus frame (1275 in the program);
                     \* not below TAG_SIZE + BUFFER_OFFSET, see EncoderAtU

\* F(v), with v computed once and then used as a value
Bind(v, F(_)) == CHOOSE r \in {F(x) : x \in {v}} : TRUE

Min(a, b) == IF a < b THEN a ELSE b
Max(a, b) == IF a < b THEN b ELSE a

(***************************************************************************)
(* error.rs: ProtocolError                                                 *)
(***************************************************************************)
NoError == [kind |-> "Ok", code |-> 0, msg |-> ""]
Serde == [kind |-> "Serde", code |-> 0, msg |-> "json"]
Opus == [kind |-> "Opus", code |-> 0, msg |-> "opus"]
Nacl == [kind |-> "Nacl", code |-> 0, msg |-> "aead"]
WebSocketErr == [kind |-> "WebSocket", code |-> 0, msg |-> "websocket"]
Io(text) == [kind |-> "Io", code |-> 0, msg |-> text]
Closed(code) == [kind |-> "Closed", code |-> code, msg |-> "closed"]
custom_error(text) == Io(text)

IsErr(e) == e.kind # "Ok"

\* not a ProtocolError: what stands for the Result of a call that has not
\* returned, its thread being inside a socket.recv() without a timeout
Blocked == [kind |-> "Blocked", code |-> 0, msg |-> "recv"]

Ok(v) == [ok |-> TRUE, val |-> v, err |-> NoError]
Fail(e) == [ok |-> FALSE, val |-> 0, err |-> e]

(***************************************************************************)
(* lib.rs: close-code classification and the conversion to a host error    *)
(***************************************************************************)
code_can_be_handled_terminal_1000_only(code) == code # 1000

code_can_be_handled(code) == code # 1000 /\ code # 4014 /\ code # 4015

NoPyErr == [kind |-> "None", code |-> 0, msg |-> ""]
\* the exception a method of the event loop raised, as the PyErr the call
\* returns with `?`
PyRuntimeError(text) == [kind |-> "RuntimeError", code |-> 0, msg |-> text]
ReconnectError(code) == [kind |-> "ReconnectError", code |-> code, msg |-> ""]
ConnectionClosed(code) == [kind |-> "ConnectionClosed", code |-> code, msg |-> ""]
ConnectionError(text) == [kind |-> "ConnectionError", code |-> 0, msg |-> text]

PyErrFrom(err) ==
  IF err.kind = "Closed" /\ code_can_be_handled(err.code)
    THEN ReconnectError(err.code)
  ELSE IF err.kind = "Closed"
    THEN ConnectionClosed(err.code)
  ELSE ConnectionError(err.msg)

(***************************************************************************)
(* payloads.rs: EncryptionMode and the negotiation                         *)
(***************************************************************************)
ModeStrings ==
  {"xsalsa20_poly1305", "xsalsa20_poly1305_suffix", "xsalsa20_poly1305_lite"}
\* a mode the peer may advertise that the client does not implement
UnknownModeString == "aead_aes256_gcm"
PeerModeStrings == ModeStrings \cup {UnknownModeString}

EncryptionMode_default == XSalsa20Poly1305

EncryptionMode_into(mode) ==
  CASE mode = XSalsa20Poly1305 -> "xsalsa20_poly1305"
    [] mode = XSalsa20Poly1305Suffix -> "xsalsa20_poly1305_suffix"
    [] mode = XSalsa20Poly1305Lite -> "xsalsa20_poly1305_lite"

EncryptionMode_from_str(s) ==
  CASE s = "xsalsa20_poly1305_lite" -> Ok(XSalsa20Poly1305Lite)
    [] s = "xsalsa20_poly1305_suffix" -> Ok(XSalsa20Poly1305Suffix)
    [] s = "xsalsa20_poly1305" -> Ok(XSalsa20Poly1305)
    [] OTHER -> Fail(custom_error("unknown encryption mode"))

\* modes.iter().map(parse).filter_map(Result::ok)
RECURSIVE ParsedModes(_)
ParsedModes(modes) ==
  IF modes = <<>> THEN <<>>
  ELSE LET r == EncryptionMode_from_str(Head(modes))
       IN  IF r.ok THEN <<r.val>> \o ParsedModes(Tail(modes))
           ELSE ParsedModes(Tail(modes))

\* Iterator::max over the derived Ord (the discriminant)
RECURSIVE IterMax(_)
IterMax(s) ==
  IF Len(s) = 1 THEN Head(s) ELSE Max(Head(s), IterMax(Tail(s)))

\* a slip: the first supported mode instead of the best one
get_encryption_mode_first(modes) ==
  LET parsed == ParsedModes(modes)
  IN  IF parsed = <<>>
        THEN Fail(custom_error("No best supported encryption mode found"))
        ELSE Ok(Head(parsed))

get_encryption_mode(modes) ==
  LET parsed == ParsedModes(modes)
  IN  IF parsed = <<>>
        THEN Fail(custom_error("No best supported encryption mode found"))
        ELSE Ok(IterMax(parsed))

(***************************************************************************)
(* Values exchanged with the peer                                          *)
(***************************************************************************)
\* f64 of the HELLO payload: ms + 1/2 when half
F64(ms, half) == [ms |-> ms, half |-> half]
\* a slip: the advertised interval rounded up instead of truncated
f64_as_u64_ceil(x) ==
  IF x.ms < 0 THEN 0 ELSE Min(IF x.half THEN x.ms + 1 ELSE x.ms, U64_MAX)
\* `x as u64`: truncates towards zero and saturates (a negative value is 0)
f64_as_u64(x) == IF x.ms < 0 THEN 0 ELSE Min(x.ms, U64_MAX)
\* the integer n as an f64, and the order of an f64 and an integer
F64Of(n) == F64(n, FALSE)
F64Less(x, n) == x.ms < n
F64Min(x, n) == IF F64Less(x, n) THEN x ELSE F64Of(n)

HelloIntervals ==
  {F64(-1, TRUE), F64(0, FALSE), F64(13, TRUE), F64(4999, TRUE),
   F64(5000, FALSE), F64(41250, FALSE)}

KeyBytes == {0, 1}
Keys == [1..KeyLen -> KeyBytes]
ZeroKey == [i \in 1..KeyLen |-> 0]
\* secret_key.iter().all(|&c| c == 0)
key_is_zero(key) == \A i \in DOMAIN key : key[i] = 0

ValidIps == {"203.0.113.5"}
PeerIps == ValidIps \cup {"not-an-ip"}
\* str::parse::<Ipv4Addr>
ip_parses(ip) == ip \in ValidIps

ModeLists == UNION {[1..n -> PeerModeStrings] : n \in 0..MaxModes}

\* frames the peer can put on the WebSocket, as tungstenite hands them over:
\*   t    "text" | "close" | "other" (binary, ping, pong)
\*   json whether the text parses as {op, d}
\*   op   the opcode
\*   dOk  whether d parses as the payload type of op
\*   d    the payload
NoPayload == [x |-> 0]
TextFrame(op, dOk, d) == [t |-> "text", json |-> TRUE, op |-> op, dOk |-> dOk, d |-> d]
BadJsonFrame == [t |-> "text", json |-> FALSE, op |-> 0, dOk |-> FALSE, d |-> NoPayload]
OtherFrame == [t |-> "other", json |-> FALSE, op |-> 0, dOk |-> FALSE, d |-> NoPayload]
\* Message::Close(Some(frame)) and Message::Close(None)
CloseFrameIn(has, code) ==
  [t |-> "close", json |-> FALSE, op |-> 0, dOk |-> FALSE,
   d |-> [has |-> has, code |-> code]]

HelloFrame(interval) == TextFrame(HELLO, TRUE, [heartbeat_interval |-> interval])
ReadyFrame(ssrc, ip, port, modes) ==
  TextFrame(READY, TRUE, [ssrc |-> ssrc, ip |-> ip, port |-> port, modes |-> modes])
SessionDescriptionFrame(mode, key) ==
  TextFrame(SESSION_DESCRIPTION, TRUE, [mode |-> mode, secret_key |-> key])

\* frames the client writes
Frame(op, a, b) == [op |-> op, a |-> a, b |-> b]
IdentifyFrame == Frame(IDENTIFY, "", 0)
ResumeFrame == Frame(RESUME, "", 0)
HeartbeatFrame == Frame(HEARTBEAT, "", 0)
SpeakingFrame(flags) == Frame(SPEAKING, "", flags)
SelectProtocolFrame(address, port, mode) ==
  Frame(SELECT_PROTOCOL, EncryptionMode_into(mode), port)
CloseFrameOut(code) == Frame(CLOSE_FRAME, "closing connection", code)

(***************************************************************************)
(* protocol.rs: DiscordVoiceProtocol                                       *)
(***************************************************************************)
NoSocket == [some |-> FALSE, ip |-> "", port |-> 0]
SocketTo(ip, port) == [some |-> TRUE, ip |-> ip, port |-> port]

\* ProtocolBuilder::connect: the engine as constructed.
\*   elapsed       last_heartbeat.elapsed() in ms, saturated at 5000
\*   read_timeout  the read timeout of the TCP stream, 0 = none
ProtocolNew ==
  [close_code |-> 0,
   heartbeat_interval |-> U64_MAX,
   elapsed |-> 0,
   read_timeout |-> 0,
   ssrc |-> 0,
   port |-> 0,
   endpoint_ip |-> "",
   encryption |-> EncryptionMode_default,
   secret_key |-> ZeroKey,
   socket |-> NoSocket,
   recent_acks |-> <<>>]

\* time passing: last_heartbeat.elapsed() grows (saturated)
Elapse(p, ms) == [p EXCEPT !.elapsed = Min(p.elapsed + ms, MaxHeartbeatInterval)]

\* what one operation of the engine gives: the engine after it, the
\* lifecycle register after it, the frames written and the Result
\* discovery tells how many times udp_discovery was called by the operation
\* and how many of its requests left the socket
NoDiscovery == [attempts |-> 0, requests |-> 0]
Outcome(p, st, wrote, result) ==
  [proto |-> p, state |-> st, wrote |-> wrote, result |-> result,
   discovery |-> NoDiscovery]

\* udp_discovery, one attempt: what the UDP peer does with it
\*   kind "ok" | "send_err" | "recv_err" | "no_null" | "bad_utf8"
Attempt(kind, ip, port) == [kind |-> kind, ip |-> ip, port |-> port]
AttemptOk(a) == a.kind = "ok"
AttemptError(a) ==
  CASE a.kind = "send_err" -> Io("send")
    [] a.kind = "recv_err" -> Io("recv")
    [] a.kind = "no_null" -> custom_error("could not find end of IP")
    [] a.kind = "bad_utf8" -> custom_error("invalid IP found (not UTF-8")
    [] a.kind = "silent" -> Blocked
    [] OTHER -> NoError
\* a discovery request leaves the socket unless the send itself fails
AttemptSends(a) == a.kind # "send_err"

\* a slip: one retry fewer
RECURSIVE DiscoveryLoop_four_retries(_, _, _)
DiscoveryLoop_four_retries(script, retries, requests) ==
  LET a == Head(script)
      sentNow == requests + (IF AttemptSends(a) THEN 1 ELSE 0)
  IN  IF AttemptOk(a)
        THEN [ok |-> TRUE, val |-> a, err |-> NoError,
              attempts |-> retries + 1, requests |-> sentNow]
      ELSE IF a.kind = "silent"
        THEN [ok |-> FALSE, val |-> a, err |-> Blocked,
              attempts |-> retries + 1, requests |-> sentNow]
      ELSE IF retries < MaxRetries - 1
        THEN DiscoveryLoop_four_retries(Tail(script), retries + 1, sentNow)
      ELSE [ok |-> FALSE, val |-> a, err |-> AttemptError(a),
            attempts |-> retries + 1, requests |-> sentNow]

\* handle_ready: the retry loop around udp_discovery
\* gives [ok, val (the attempt that ended the loop), err, attempts, requests]
\* an attempt "silent" is one whose request leaves and is never answered: the
\* UDP socket has no read timeout, socket.recv() does not return
RECURSIVE DiscoveryLoop(_, _, _)
DiscoveryLoop(script, retries, requests) ==
  LET a == Head(script)
      sentNow == requests + (IF AttemptSends(a) THEN 1 ELSE 0)
  IN  IF AttemptOk(a)
        THEN [ok |-> TRUE, val |-> a, err |-> NoError,
              attempts |-> retries + 1, requests |-> sentNow]
      ELSE IF a.kind = "silent"
        THEN [ok |-> FALSE, val |-> a, err |-> Blocked,
              attempts |-> retries + 1, requests |-> sentNow]
      ELSE IF retries < MaxRetries
        THEN DiscoveryLoop(Tail(script), retries + 1, sentNow)
      ELSE [ok |-> FALSE, val |-> a, err |-> AttemptError(a),
            attempts |-> retries + 1, requests |-> sentNow]

Discovered(out, found) ==
  [out EXCEPT !.discovery = [attempts |-> found.attempts,
                             requests |-> found.requests]]

\* handle_ready(payload)
\*   env.bindOk   UdpSocket::bind and connect succeed
\*   env.script   the outcomes of the discovery attempts
\*   env.writeOk  the write of SELECT_PROTOCOL succeeds
HandleReady(p, st, payload, env) ==
  LET p1 == [p EXCEPT !.ssrc = payload.ssrc, !.port = payload.port]
      mode == get_encryption_mode(payload.modes)
      p2 == [p1 EXCEPT !.encryption = mode.val, !.endpoint_ip = payload.ip]
      p3 == [p2 EXCEPT !.socket = SocketTo(payload.ip, payload.port)]
      found == DiscoveryLoop(env.script, 0, 0)
  IN  IF ~mode.ok THEN Outcome(p1, st, <<>>, mode.err)
      ELSE IF ~ip_parses(payload.ip)
        THEN Outcome(p2, st, <<>>, custom_error("invalid IP address"))
      ELSE IF ~env.bindOk THEN Outcome(p2, st, <<>>, Io("bind"))
      ELSE IF ~found.ok THEN Discovered(Outcome(p3, st, <<>>, found.err), found)
      ELSE IF ~env.writeOk
        THEN Discovered(Outcome(p3, st, <<>>, WebSocketErr), found)
      ELSE Discovered(
             Outcome(p3, st,
                     <<SelectProtocolFrame(found.val.ip, found.val.port, p3.encryption)>>,
                     NoError),
             found)

\* heartbeat(): write HEARTBEAT, then last_heartbeat = now
Heartbeat(p, st, writeOk) ==
  IF writeOk
    THEN Outcome([p EXCEPT !.elapsed = 0], st, <<HeartbeatFrame>>, NoError)
    ELSE Outcome(p, st, <<>>, WebSocketErr)

\* the HEARTBEAT_ACK arm: the ring of the 20 latest round trips
PushAck(acks, delta) ==
  (IF Len(acks) = AcksCapacity THEN Tail(acks) ELSE acks) \o <<delta>>

\* a slip: the lifecycle register is not set by SESSION_DESCRIPTION
HandleSessionDescription_no_connected(p, st, payload) ==
  LET mode == EncryptionMode_from_str(payload.mode)
  IN  IF ~mode.ok THEN Outcome(p, st, <<>>, mode.err)
      ELSE Outcome([p EXCEPT !.encryption = mode.val,
                             !.secret_key = payload.secret_key],
                   st, <<>>, NoError)

\* the SESSION_DESCRIPTION arm
HandleSessionDescription(p, st, payload) ==
  LET mode == EncryptionMode_from_str(payload.mode)
  IN  IF ~mode.ok THEN Outcome(p, st, <<>>, mode.err)
      ELSE Outcome([p EXCEPT !.encryption = mode.val,
                             !.secret_key = payload.secret_key],
                   CONNECTED, <<>>, NoError)

\* a slip: the advertised interval is taken without the cap
HandleHello_uncapped(p, st, payload, env) ==
  LET interval == f64_as_u64(payload.heartbeat_interval)
      p1 == [p EXCEPT !.heartbeat_interval = interval]
  IN  IF ~env.sockOk THEN Outcome(p1, st, <<>>, Io("set_read_timeout"))
      ELSE Outcome([p1 EXCEPT !.read_timeout = ReadTimeoutMs, !.elapsed = 0],
                   st, <<>>, NoError)

\* the HELLO arm
HandleHello(p, st, payload, env) ==
  LET interval == f64_as_u64(payload.heartbeat_interval)
      p1 == [p EXCEPT !.heartbeat_interval = Min(interval, MaxHeartbeatInterval)]
  IN  IF ~env.sockOk THEN Outcome(p1, st, <<>>, Io("set_read_timeout"))
      ELSE Outcome([p1 EXCEPT !.read_timeout = ReadTimeoutMs, !.elapsed = 0],
                   st, <<>>, NoError)

\* the Message::Close arm
HandleClose(p, st, d) ==
  LET p1 == IF d.has THEN [p EXCEPT !.close_code = d.code] ELSE p
  IN  Outcome(p1, DISCONNECTED, <<>>, Closed(p1.close_code))

\* a slip: a read that timed out counts as a lost connection
ReadTimedOut_disconnects(p, st) == Outcome(p, DISCONNECTED, <<>>, NoError)

\* read_message() gave WouldBlock or TimedOut: return Ok(())
ReadTimedOut(p, st) == Outcome(p, st, <<>>, NoError)

\* a slip: an opcode that is not handled is answered with a heartbeat
IgnoredOpcode_answers(p, st) == Outcome(p, st, <<HeartbeatFrame>>, NoError)

\* the arm `_ => {}` of the match on payload.op
IgnoredOpcode(p, st) == Outcome(p, st, <<>>, NoError)

\* poll(), after the heartbeat that was due: the read and the dispatch.
\*   env.read  "timeout" | "error" | "msg"
\*   env.msg   the frame read
\*   env.wait  ms spent in the read
Dispatch(p0, st, env) ==
  LET p == Elapse(p0, env.wait)
      m == env.msg
  IN  CASE env.read = "timeout" -> ReadTimedOut(p, st)
        [] env.read = "error" -> Outcome(p, st, <<>>, WebSocketErr)
        [] env.read = "msg" /\ m.t = "close" -> HandleClose(p, st, m.d)
        [] env.read = "msg" /\ m.t = "other" -> Outcome(p, st, <<>>, NoError)
        [] env.read = "msg" /\ m.t = "text" /\ ~m.json -> Outcome(p, st, <<>>, Serde)
        [] env.read = "msg" /\ m.t = "text" /\ m.json ->
             CASE m.op = HELLO ->
                    IF m.dOk THEN HandleHello(p, st, m.d, env)
                    ELSE Outcome(p, st, <<>>, Serde)
               [] m.op = READY ->
                    IF m.dOk THEN HandleReady(p, st, m.d, env)
                    ELSE Outcome(p, st, <<>>, Serde)
               [] m.op = HEARTBEAT -> Heartbeat(p, st, env.writeOk)
               [] m.op = HEARTBEAT_ACK ->
                    Outcome([p EXCEPT !.recent_acks = PushAck(@, p.elapsed)],
                            st, <<>>, NoError)
               [] m.op = SESSION_DESCRIPTION ->
                    IF m.dOk THEN HandleSessionDescription(p, st, m.d)
                    ELSE Outcome(p, st, <<>>, Serde)
               [] OTHER -> IgnoredOpcode(p, st)

\* poll(): the heartbeat when it is due, then Dispatch
\* a slip: the heartbeat is due only past the interval
HeartbeatDue_strict(p) == p.elapsed > p.heartbeat_interval

HeartbeatDue(p) == p.elapsed >= p.heartbeat_interval

poll(p, st, env) ==
  IF HeartbeatDue(p)
    THEN LET hb == Heartbeat(p, st, env.hbOk)
         IN  IF IsErr(hb.result) THEN hb
             ELSE LET rest == Dispatch(hb.proto, hb.state, env)
                  IN  [rest EXCEPT !.wrote = hb.wrote \o @]
    ELSE Dispatch(p, st, env)

\* a slip: the close is recorded after the frame is written, so that a
\* failing write leaves the register and the remembered code untouched
close_send_first(p, st, code, writeOk) ==
  IF writeOk
    THEN Outcome([p EXCEPT !.close_code = code], DISCONNECTED,
                 <<CloseFrameOut(code)>>, NoError)
    ELSE Outcome(p, st, <<>>, WebSocketErr)

\* close(code)
close(p, st, code, writeOk) ==
  LET p1 == [p EXCEPT !.close_code = code]
  IN  IF writeOk
        THEN Outcome(p1, DISCONNECTED, <<CloseFrameOut(code)>>, NoError)
        ELSE Outcome(p1, DISCONNECTED, <<>>, WebSocketErr)

\* speaking(flags)
speaking(p, st, flags, writeOk) ==
  IF writeOk THEN Outcome(p, st, <<SpeakingFrame(flags)>>, NoError)
  ELSE Outcome(p, st, <<>>, WebSocketErr)

\* identify() and resume()
identify(p, st, writeOk) ==
  IF writeOk THEN Outcome(p, st, <<IdentifyFrame>>, NoError)
  ELSE Outcome(p, st, <<>>, WebSocketErr)

resume(p, st, writeOk) ==
  IF writeOk THEN Outcome(p, st, <<ResumeFrame>>, NoError)
  ELSE Outcome(p, st, <<>>, WebSocketErr)

(***************************************************************************)
(* player.rs: AudioEncoder (the packet builder)                            *)
(***************************************************************************)
\* a u32 as two 16-bit limbs
U32(hi, lo) == [hi |-> hi, lo |-> lo]
\* u32::wrapping_add(x, n), n < 2^16
u32_wrapping_add(x, n) ==
  LET lo == x.lo + n
  IN  U32((x.hi + (lo \div U16Modulus)) % U16Modulus, lo % U16Modulus)
\* a number below 2^31 as a u32
U32Of(k) == U32(k \div U16Modulus, k % U16Modulus)
\* u16::wrapping_add(x, n)
u16_wrapping_add(x, n) == (x + n) % U16Modulus

\* the scratch buffer of the builder: MAX_BUFFER_SIZE with MaxOpusLen for the
\* 1275 bytes of the longest opus frame
MAX_BUFFER_SIZE == MaxOpusLen + 24 + 12 + 24 + 16 + 12
Zeros(n) == [i \in 1..n |-> 0]
\* buf[at..at + len].copy_from_slice(bytes), at counted from 0
Write(buf, at, bytes) ==
  [i \in 1..Len(buf) |->
     IF i > at /\ i <= at + Len(bytes) THEN bytes[i - at] ELSE buf[i]]
u16_to_be_bytes(x) == <<x \div 256, x % 256>>
u32_to_be_bytes(u) == u16_to_be_bytes(u.hi) \o u16_to_be_bytes(u.lo)

\* XSalsa20Poly1305 by a stand-in that keeps its shape: encrypt_in_place
\* turns n bytes into a 16-byte tag followed by n bytes. The n bytes are the
\* data under a key stream of key and nonce, byte by byte. The tag is a keyed
\* hash of the nonce and the ciphertext: its 16 bytes start from key and
\* nonce and take in every byte of the nonce, the length and every byte of
\* the ciphertext, each byte changing all 16 through a permutation that is
\* not affine. decrypt with the same key and nonce gives the n bytes back; it
\* fails for a cut box and whenever the tag of what it is given differs
\* from the tag in the box, which, as with Poly1305, is every box that was
\* not made by encrypt_in_place under this key and nonce, up to a collision
\* of all 16 tag bytes
Pad(key, nonce, i) ==
  (key[((i - 1) % KeyLen) + 1] + nonce[((i - 1) % NONCE_SIZE) + 1] + i) % 256
\* (x + 1)^3 modulo 257, less 1: a permutation of the bytes
SboxTable == [x \in 0..255 |-> (((x + 1) * (x + 1) * (x + 1)) % 257) - 1]
Sbox(x) == SboxTable[x % 256]
\* two bytes taken into the 16 bytes of the hash: the bytes at odd places
\* take in their right neighbours and the first byte, then those at even
\* places their right neighbours and the second byte, so that no two states
\* give the same state for the same two bytes
Absorb(s, b, c) ==
  Bind([i \in 1..TAG_SIZE |->
          IF i % 2 = 1 THEN (s[i] + Sbox(s[i + 1] + b + i)) % 256 ELSE s[i]],
       LAMBDA h :
         [i \in 1..TAG_SIZE |->
            IF i % 2 = 0 THEN (h[i] + Sbox(h[(i % TAG_SIZE) + 1] + c + i)) % 256
            ELSE h[i]])
\* the pairs lo..hi of bytes taken in one after the other, from state s
RECURSIVE Absorbed(_, _, _, _)
Absorbed(s, bytes, lo, hi) ==
  IF lo > hi THEN s
  ELSE IF lo = hi
    THEN Bind(bytes[2 * lo - 1], LAMBDA b :
         Bind(bytes[2 * lo], LAMBDA c : Absorb(s, b, c)))
  ELSE Bind((lo + hi) \div 2, LAMBDA mid :
       Bind(Absorbed(s, bytes, lo, mid), LAMBDA t :
         Absorbed(t, bytes, mid + 1, hi)))
\* what is hashed: the nonce, the length and the ciphertext, with a zero
\* byte when that makes the number of bytes even
Tag(key, nonce, cipher) ==
  Bind([i \in 1..TAG_SIZE |-> Pad(key, nonce, i)], LAMBDA start :
  Bind(nonce \o <<Len(cipher) % 256>> \o cipher
         \o (IF (Len(nonce) + Len(cipher)) % 2 = 0 THEN <<0>> ELSE <<>>),
       LAMBDA bytes : Absorbed(start, bytes, 1, Len(bytes) \div 2)))
encrypt_in_place(key, nonce, data) ==
  Bind([i \in 1..Len(data) |-> (data[i] + Pad(key, nonce, i + TAG_SIZE)) % 256],
       LAMBDA cipher : Tag(key, nonce, cipher) \o cipher)
decrypt(key, nonce, box) ==
  IF Len(box) < TAG_SIZE THEN Fail(Nacl)
  ELSE Bind([i \in 1..(Len(box) - TAG_SIZE) |-> box[i + TAG_SIZE]],
            LAMBDA cipher :
              IF SubSeq(box, 1, TAG_SIZE) = Tag(key, nonce, cipher)
                THEN Ok([i \in 1..Len(cipher) |->
                           (cipher[i] + 256 - Pad(key, nonce, i + TAG_SIZE)) % 256])
                ELSE Fail(Nacl))

\* the three encrypters: the nonce each uses, and the InPlaceBuffer after it
\* (the box, then the bytes extend_from_slice appends)
Encrypted(nonce, data) == [nonce |-> nonce, data |-> data]
encrypt_xsalsa20_poly1305(key, lite, header, data) ==
  Bind(header \o Zeros(NONCE_SIZE - BUFFER_OFFSET),
       LAMBDA nonce : Encrypted(nonce, encrypt_in_place(key, nonce, data) \o nonce))
\* rnd: the 24 bytes thread_rng() fills in
encrypt_xsalsa20_poly1305_suffix(key, rnd, header, data) ==
  Encrypted(rnd, encrypt_in_place(key, rnd, data) \o rnd)
encrypt_xsalsa20_poly1305_lite(key, lite, header, data) ==
  Bind(u32_to_be_bytes(lite) \o Zeros(NONCE_SIZE - 4),
       LAMBDA nonce :
         Encrypted(nonce, encrypt_in_place(key, nonce, data) \o SubSeq(nonce, 1, 4)))

NoEncoder ==
  [sequence |-> 0, timestamp |-> U32(0, 0), lite_nonce |-> U32(0, 0),
   ssrc |-> 0, key |-> ZeroKey, encrypter |-> EncryptionMode_default,
   buffer |-> Zeros(MAX_BUFFER_SIZE)]
NoHeader == [sequence |-> 0, timestamp |-> U32(0, 0), ssrc |-> 0]

\* AudioEncoder::from_protocol: the counters start at 0, the buffer is zero,
\* ssrc, key and mode are those of the engine at this moment
AudioEncoder_from_protocol(p) ==
  [sequence |-> 0, timestamp |-> U32(0, 0), lite_nonce |-> U32(0, 0),
   ssrc |-> p.ssrc, key |-> p.secret_key, encrypter |-> p.encryption,
   buffer |-> Zeros(MAX_BUFFER_SIZE)]

\* clone_socket(): socket.try_clone()? duplicates the descriptor, which the
\* system refuses (cloneOk false) when the process has none left
clone_socket(p, cloneOk) ==
  IF ~p.socket.some THEN Fail(custom_error("No socket found"))
  ELSE IF cloneOk THEN Ok(p.socket)
  ELSE Fail(Io("Too many open files (os error 24)"))

\* encode_pcm_buffer: opus.encode(&pcm_buffer[..size], &mut self.buffer)
\* puts the opus bytes the codec produces for the frame at the start of the
\* buffer
encode_pcm_buffer(enc, opus) == [enc EXCEPT !.buffer = Write(@, 0, opus)]

\* what prepare_packet leaves: the encoder, the header as fields, the
\* Result (Ok(buffer.len()) as len), and the nonce used and the bytes that
\* were encrypted
Prepared(enc, header, result, len, nonce, plain) ==
  [enc |-> enc, header |-> header, result |-> result, len |-> len,
   nonce |-> nonce, plain |-> plain]

HeaderBytes(enc) ==
  <<128, 120>> \o u16_to_be_bytes(enc.sequence)
    \o u32_to_be_bytes(enc.timestamp) \o u32_to_be_bytes(U32Of(enc.ssrc))

\* a slip: lite_nonce advances in the lite mode only
prepare_packet_lite_only(enc, size, cryptOk, rnd) ==
  LET header == [sequence |-> enc.sequence, timestamp |-> enc.timestamp,
                 ssrc |-> enc.ssrc]
  IN
  Bind(HeaderBytes(enc), LAMBDA hbytes :
  Bind(Write(enc.buffer, 0, hbytes), LAMBDA b1 :
  Bind(SubSeq(b1, BUFFER_OFFSET + 1, BUFFER_OFFSET + size), LAMBDA plain :
  Bind(CASE enc.encrypter = XSalsa20Poly1305 ->
              encrypt_xsalsa20_poly1305(enc.key, enc.lite_nonce, hbytes, plain)
         [] enc.encrypter = XSalsa20Poly1305Suffix ->
              encrypt_xsalsa20_poly1305_suffix(enc.key, rnd, hbytes, plain)
         [] OTHER ->
              encrypt_xsalsa20_poly1305_lite(enc.key, enc.lite_nonce, hbytes, plain),
       LAMBDA e :
    IF cryptOk
      THEN Prepared([enc EXCEPT !.buffer = Write(b1, BUFFER_OFFSET, e.data),
                                !.lite_nonce = IF enc.encrypter = XSalsa20Poly1305Lite
                                                 THEN u32_wrapping_add(@, 1)
                                                 ELSE @],
                    header, NoError, Len(e.data), e.nonce, plain)
      ELSE Prepared([enc EXCEPT !.buffer = b1], header, Nacl, 0, e.nonce, plain)))))

\* prepare_packet: the header is written from the counters over the first 12
\* bytes of the buffer, the size bytes behind it are encrypted in place and
\* the tail is appended, lite_nonce advances after a successful encryption;
\* the length returned is that of the InPlaceBuffer, which starts behind
\* the header
prepare_packet(enc, size, cryptOk, rnd) ==
  LET header == [sequence |-> enc.sequence, timestamp |-> enc.timestamp,
                 ssrc |-> enc.ssrc]
  IN
  Bind(HeaderBytes(enc), LAMBDA hbytes :
  Bind(Write(enc.buffer, 0, hbytes), LAMBDA b1 :
  Bind(SubSeq(b1, BUFFER_OFFSET + 1, BUFFER_OFFSET + size), LAMBDA plain :
  Bind(CASE enc.encrypter = XSalsa20Poly1305 ->
              encrypt_xsalsa20_poly1305(enc.key, enc.lite_nonce, hbytes, plain)
         [] enc.encrypter = XSalsa20Poly1305Suffix ->
              encrypt_xsalsa20_poly1305_suffix(enc.key, rnd, hbytes, plain)
         [] OTHER ->
              encrypt_xsalsa20_poly1305_lite(enc.key, enc.lite_nonce, hbytes, plain),
       LAMBDA e :
    IF cryptOk
      THEN Prepared([enc EXCEPT !.buffer = Write(b1, BUFFER_OFFSET, e.data),
                                !.lite_nonce = u32_wrapping_add(@, 1)],
                    header, NoError, Len(e.data), e.nonce, plain)
      ELSE Prepared([enc EXCEPT !.buffer = b1], header, Nacl, 0, e.nonce, plain)))))

\* how an iteration that read a frame goes on: the encoder fails, the
\* encryption fails, send_to reports WouldBlock/TimedOut, another error, or
\* the datagram leaves
FrameOutcomes == {"sent", "dropped", "send_err", "crypt_err", "encode_err"}

\* one send attempt: the encoder after it, the header written, whether a
\* datagram left, the Result, and the bytes handed to send_to
SendAttempt(pp, enc, left, result) ==
  [enc |-> enc, header |-> pp.header, left |-> left, result |-> result,
   datagram |-> IF IsErr(pp.result) THEN <<>>
                ELSE SubSeq(pp.enc.buffer, 1, pp.len),
   nonce |-> pp.nonce, plain |-> pp.plain]

\* a slip: the sequence advances after the header has been written
send_opus_packet_late_increment(enc, size, how, rnd) ==
  Bind(prepare_packet(enc, size, how # "crypt_err", rnd), LAMBDA pp :
  Bind([pp.enc EXCEPT !.sequence = u16_wrapping_add(@, 1)], LAMBDA e1 :
    CASE how = "crypt_err" -> SendAttempt(pp, e1, FALSE, pp.result)
      [] how = "dropped" -> SendAttempt(pp, e1, FALSE, NoError)
      [] how = "send_err" -> SendAttempt(pp, e1, FALSE, Io("send_to"))
      [] OTHER ->
           SendAttempt(pp, [e1 EXCEPT !.timestamp =
                                     u32_wrapping_add(@, SAMPLES_PER_FRAME)],
                       TRUE, NoError)))

\* a slip: the timestamp advances for a dropped packet as well
send_opus_packet_timestamp_on_drop(enc, size, how, rnd) ==
  Bind([enc EXCEPT !.sequence = u16_wrapping_add(@, 1)], LAMBDA e1 :
  Bind(prepare_packet(e1, size, how # "crypt_err", rnd), LAMBDA pp :
  Bind([pp.enc EXCEPT !.timestamp = u32_wrapping_add(@, SAMPLES_PER_FRAME)],
       LAMBDA e2 :
    CASE how = "crypt_err" -> SendAttempt(pp, pp.enc, FALSE, pp.result)
      [] how = "dropped" -> SendAttempt(pp, e2, FALSE, NoError)
      [] how = "send_err" -> SendAttempt(pp, pp.enc, FALSE, Io("send_to"))
      [] OTHER -> SendAttempt(pp, e2, TRUE, NoError))))

\* send_opus_packet
send_opus_packet(enc, size, how, rnd) ==
  Bind([enc EXCEPT !.sequence = u16_wrapping_add(@, 1)], LAMBDA e1 :
  Bind(prepare_packet(e1, size, how # "crypt_err", rnd), LAMBDA pp :
    CASE how = "crypt_err" -> SendAttempt(pp, pp.enc, FALSE, pp.result)
      [] how = "dropped" -> SendAttempt(pp, pp.enc, FALSE, NoError)
      [] how = "send_err" -> SendAttempt(pp, pp.enc, FALSE, Io("send_to"))
      [] OTHER ->
           SendAttempt(pp, [pp.enc EXCEPT !.timestamp =
                                        u32_wrapping_add(@, SAMPLES_PER_FRAME)],
                       TRUE, NoError)))

\* the opus bytes of a frame of n bytes, and the 24 bytes of one draw of
\* thread_rng()
OpusOf(n) == [i \in 1..n |-> 100 + i]
RandomOf(k) == [i \in 1..NONCE_SIZE |-> (k + i) % 256]
\* one iteration's frame: encoded, then sent
EncodeAndSend(enc, opus, how, rnd) ==
  Bind(encode_pcm_buffer(enc, opus),
       LAMBDA e : send_opus_packet(e, Len(opus), how, rnd))
\* aud.read_opus_frame(&mut encoder.buffer[BUFFER_OFFSET..]): the source
\* puts its frame behind the place of the header
read_opus_frame(enc, opus) == [enc EXCEPT !.buffer = Write(@, BUFFER_OFFSET, opus)]
\* one iteration's frame by the type of the source: a frame of an Opus
\* source is sent as it is read, one of a Pcm source is encoded first
ReadAndSend(kind, enc, opus, how, rnd) ==
  IF kind = "Opus"
    THEN Bind(read_opus_frame(enc, opus),
              LAMBDA e : send_opus_packet(e, Len(opus), how, rnd))
    ELSE EncodeAndSend(enc, opus, how, rnd)

\* SAMPLES_PER_FRAME * u modulo 2^32 for a u32 u, computed limb by limb
Times960U(u) ==
  U32((SAMPLES_PER_FRAME * u.hi + ((SAMPLES_PER_FRAME * u.lo) \div U16Modulus))
        % U16Modulus,
      (SAMPLES_PER_FRAME * u.lo) % U16Modulus)
Times960(k) == Times960U(U32Of(k))

\* the counters of the encoder of session p after u packets that all left
\* (u a u32): send_opus_packet has added 1 to sequence and lite_nonce and
\* SAMPLES_PER_FRAME to timestamp u times. The buffer is zero: this is where
\* the computation of EncoderAtU starts, not an encoder of the program
CountersAtU(p, u) ==
  [AudioEncoder_from_protocol(p) EXCEPT
     !.sequence = u.lo,
     !.timestamp = Times960U(u),
     !.lite_nonce = u]
\* u - n for a u32 u, n < 2^16 (u >= n)
u32_minus(u, n) ==
  IF u.lo >= n THEN U32(u.hi, u.lo - n) ELSE U32(u.hi - 1, u.lo + U16Modulus - n)

\* the encoder of session p after u packets of MaxOpusLen bytes that all
\* left (random nonces RandomOf(0)), buffer included. Packet u encrypts
\* buffer[12..12 + MaxOpusLen]: the opus bytes from the 13th on and then 12
\* bytes packet u - 1 left at buffer[MaxOpusLen..MaxOpusLen + 12], which are
\* ciphertext of opus bytes of packet u - 1 (MaxOpusLen >= TAG_SIZE +
\* BUFFER_OFFSET) and so depend on no packet before it; packet u writes all
\* the bytes any packet has written. Two packets from the counters of
\* u - 2 therefore give the buffer u packets leave
EncoderAtU(p, u) ==
  IF u = U32(0, 0) THEN AudioEncoder_from_protocol(p)
  ELSE IF u = U32(0, 1)
    THEN Bind(AudioEncoder_from_protocol(p), LAMBDA e :
           EncodeAndSend(e, OpusOf(MaxOpusLen), "sent", RandomOf(0)).enc)
  ELSE Bind(CountersAtU(p, u32_minus(u, 2)), LAMBDA e :
       Bind(EncodeAndSend(e, OpusOf(MaxOpusLen), "sent", RandomOf(0)).enc,
            LAMBDA e1 :
         EncodeAndSend(e1, OpusOf(MaxOpusLen), "sent", RandomOf(0)).enc))
EncoderAt(p, k) == EncoderAtU(p, U32Of(k))

(***************************************************************************)
(* State                                                                   *)
(***************************************************************************)
VARIABLES
  proto,   \* the DiscordVoiceProtocol behind Arc<Mutex<..>>
  state,   \* PlayingState.state, shared by the engine and the players
  hs,      \* the thread of VoiceConnector::connect (finish_flow)
  run,     \* the thread of VoiceConnection::run and its host future
  peer,    \* what the peer has sent so far, as far as the handshake goes
  last,    \* the most recent operation: its input, Result and frames
  conv,    \* an error handed to From<ProtocolError> for PyErr, and the PyErr
  player,  \* VoiceConnection.player: 0 for None, else the pipeline it owns
  media,   \* the media thread of every play(), by the number of the call
  udp      \* the datagrams on the wire: who sent the last one

vars == <<proto, state, hs, run, peer, last, conv, player, media, udp>>

\* a host future
\*   calls  the completions handed to loop.call_soon_threadsafe for it, in
\*          order: whether it is set_exception, and the value
\*   sets   how many of them the loop took: each completes the future, with
\*   value  (kind "None" for py.None(), "VoiceConnection", or an exception)
\* set_result and set_exception: `loop_.call_method1(py,
\* "call_soon_threadsafe", ..)?`. A loop that is closed raises (loopOk
\* false): nothing is scheduled, the future stays as it is, and the Err
\* goes to the caller, which drops it
FuturePending ==
  [calls |-> <<>>, sets |-> 0, rejected |-> FALSE, value |-> NoPyErr]
Completion(rejected, value) == [rejected |-> rejected, value |-> value]
set_result(fut, value, loopOk) ==
  IF loopOk
    THEN [calls |-> Append(fut.calls, Completion(FALSE, value)),
          sets |-> fut.sets + 1, rejected |-> FALSE, value |-> value]
    ELSE [fut EXCEPT !.calls = Append(@, Completion(FALSE, value))]
set_exception(fut, exc, loopOk) ==
  IF loopOk
    THEN [calls |-> Append(fut.calls, Completion(TRUE, exc)),
          sets |-> fut.sets + 1, rejected |-> TRUE, value |-> exc]
    ELSE [fut EXCEPT !.calls = Append(@, Completion(TRUE, exc))]
PyNone == NoPyErr
PyConnection == [kind |-> "VoiceConnection", code |-> 0, msg |-> ""]

NoEnvMsg == OtherFrame
LastOp(op, arg, result, wrote) ==
  [op |-> op, arg |-> arg, read |-> "", msg |-> NoEnvMsg, wait |-> 0,
   result |-> result, wrote |-> wrote,
   script |-> <<>>, discovery |-> NoDiscovery]
\* read is what the read of this poll() gave, wait the time it took; "" and 0
\* when the heartbeat that was due failed and nothing was read; script is
\* what the UDP peer did when the poll() ran a discovery
LastPoll(who, p, env, out) ==
  LET reached == ~(HeartbeatDue(p) /\ ~env.hbOk)
  IN  [op |-> "poll", arg |-> who,
       read |-> IF reached THEN env.read ELSE "",
       msg |-> IF reached THEN env.msg ELSE NoEnvMsg,
       wait |-> IF reached THEN env.wait ELSE 0,
       result |-> out.result, wrote |-> out.wrote,
       script |-> IF out.discovery.attempts > 0 THEN env.script ELSE <<>>,
       discovery |-> out.discovery]

(***************************************************************************)
(* The environment of one poll()                                           *)
(***************************************************************************)
GoodAttempt == Attempt("ok", "198.51.100.9", 40000)
\* n failing attempts of one kind, then valid answers
FailingScript(n, kind) ==
  [i \in 1..(MaxRetries + 1) |->
     IF i <= n THEN Attempt(kind, "", 0) ELSE GoodAttempt]
GoodScript == FailingScript(0, "ok")
\* every attempt fails, the last one otherwise than the others
MixedScript(kind, lastKind) ==
  [FailingScript(MaxRetries + 1, kind) EXCEPT
     ![MaxRetries + 1] = Attempt(lastKind, "", 0)]
DiscoveryScripts ==
  {FailingScript(n, k) : n \in {0, 2, MaxRetries, MaxRetries + 1},
                         k \in {"send_err", "recv_err", "no_null", "bad_utf8"}}
  \cup {MixedScript("no_null", "recv_err"), MixedScript("send_err", "bad_utf8")}

QuietEnv ==
  [hbOk |-> TRUE, read |-> "timeout", msg |-> NoEnvMsg, wait |-> ReadTimeoutMs,
   sockOk |-> TRUE, bindOk |-> TRUE, script |-> GoodScript, writeOk |-> TRUE]

ReadWaits == {0, 2500}

\* the environments of a poll() that reads frame m, the UDP peer answering a
\* discovery as one of scripts says
MsgEnvs(m, scripts) ==
  LET base == {[QuietEnv EXCEPT !.read = "msg", !.msg = m, !.wait = w] :
                 w \in ReadWaits}
  IN  base
      \cup (IF m.t = "text" /\ m.json /\ m.dOk /\ m.op = HELLO
              THEN {[e EXCEPT !.sockOk = FALSE] : e \in base} ELSE {})
      \cup (IF m.t = "text" /\ m.json /\ m.dOk /\ m.op = READY
              THEN {[e EXCEPT !.bindOk = FALSE] : e \in base}
                   \cup {[e EXCEPT !.writeOk = FALSE] : e \in base}
                   \cup {[e EXCEPT !.script = sc] :
                           e \in base, sc \in scripts}
              ELSE {})
      \cup (IF m.t = "text" /\ m.json /\ m.op = HEARTBEAT
              THEN {[e EXCEPT !.writeOk = FALSE] : e \in base} ELSE {})

\* every environment of a poll() of engine p whose peer sends frames of msgs:
\* a read times out only once HELLO has set the read timeout
PollEnvs(p, msgs, scripts) ==
  LET reads == (UNION {MsgEnvs(m, scripts) : m \in msgs})
               \cup {[QuietEnv EXCEPT !.read = "error", !.wait = 0]}
               \cup (IF p.read_timeout # 0 THEN {QuietEnv} ELSE {})
  IN  reads \cup (IF HeartbeatDue(p)
                    THEN {[e EXCEPT !.hbOk = FALSE] : e \in {QuietEnv}}
                    ELSE {})

\* the peer and the transport behave as the handshake expects
EnvIsClean(env) ==
  /\ env.hbOk /\ env.sockOk /\ env.bindOk /\ env.writeOk
  /\ env.read # "error"
  /\ \E i \in 1..(MaxRetries + 1) : AttemptOk(env.script[i])

(***************************************************************************)
(* lib.rs, VoiceConnector::connect: the thread that dials and runs         *)
(* finish_flow(resume), then completes the host future                     *)
(***************************************************************************)
\* pc: "dial" -> "hello" -> "identify" -> "loop" -> "gil" -> "done";
\*   "gil" when the thread has its result and waits in
\*   Python::acquire_gil(); result is that result
HsNew(resuming) ==
  [pc |-> "dial", resume |-> resuming, result |-> NoError, polls |-> 0,
   future |-> FuturePending]
HsIdle == [HsNew(FALSE) EXCEPT !.pc = "none"]

HsFail(h, err) == [h EXCEPT !.pc = "gil", !.result = err]

\* the handshake as the spec's scenario has it: HELLO, READY, then
\* SESSION_DESCRIPTION, nothing else, on a transport that does not fail
PeerStart == [stage |-> "start", interval |-> F64Of(0), key |-> ZeroKey]
PeerOff == [PeerStart EXCEPT !.stage = "off"]
IsHello(m) == m.t = "text" /\ m.json /\ m.dOk /\ m.op = HELLO
IsGoodReady(m) ==
  /\ m.t = "text" /\ m.json /\ m.dOk /\ m.op = READY
  /\ m.d.ip \in ValidIps
  /\ \E i \in DOMAIN m.d.modes : m.d.modes[i] \in ModeStrings
IsGoodDescription(m) ==
  /\ m.t = "text" /\ m.json /\ m.dOk /\ m.op = SESSION_DESCRIPTION
  /\ m.d.mode \in ModeStrings
  /\ \E i \in DOMAIN m.d.secret_key : m.d.secret_key[i] # 0
PeerAfter(pr, env) ==
  IF pr.stage = "off" \/ ~EnvIsClean(env) THEN PeerOff
  ELSE IF env.read = "timeout" THEN pr
  ELSE IF pr.stage = "start" /\ IsHello(env.msg)
    THEN [pr EXCEPT !.stage = "hello", !.interval = env.msg.d.heartbeat_interval]
  ELSE IF pr.stage = "hello" /\ IsGoodReady(env.msg)
    THEN [pr EXCEPT !.stage = "ready"]
  ELSE IF pr.stage = "ready" /\ IsGoodDescription(env.msg)
    THEN [pr EXCEPT !.stage = "described", !.key = env.msg.d.secret_key]
  ELSE PeerOff

\* ProtocolBuilder::connect: TLS, TCP and the WebSocket handshake
Dial ==
  /\ hs.pc = "dial"
  /\ \E ok \in BOOLEAN :
       /\ hs' = IF ok THEN [hs EXCEPT !.pc = "hello"] ELSE HsFail(hs, Io("connect"))
       /\ peer' = IF ok THEN peer ELSE PeerOff
       /\ last' = LastOp("dial", 0, IF ok THEN NoError ELSE Io("connect"), <<>>)
  /\ UNCHANGED <<proto, state, run, conv, player, media, udp>>

\* finish_flow: `self.poll()?`, first for HELLO, then while the key is zero
HsPoll(msgs, scripts) ==
  /\ hs.pc \in {"hello", "loop"}
  /\ hs.pc = "loop" => key_is_zero(proto.secret_key)
  /\ hs.polls < MaxPolls
  /\ \E env \in PollEnvs(proto, msgs, scripts) :
       LET out == poll(proto, state, env)
           h == [hs EXCEPT !.polls = @ + 1]
       IN  /\ proto' = out.proto
           /\ state' = out.state
           /\ hs' = IF out.result = Blocked THEN [h EXCEPT !.pc = "recv"]
                    ELSE IF IsErr(out.result) THEN HsFail(h, out.result)
                    ELSE [h EXCEPT !.pc = IF hs.pc = "hello" THEN "identify"
                                          ELSE "loop"]
           /\ peer' = PeerAfter(peer, env)
           /\ last' = LastPoll("hs", proto, env, out)
  /\ UNCHANGED <<run, conv, player, media, udp>>

\* finish_flow: identify() or resume()
HsIdentify ==
  /\ hs.pc = "identify"
  /\ \E writeOk \in BOOLEAN :
       LET out == IF hs.resume THEN resume(proto, state, writeOk)
                  ELSE identify(proto, state, writeOk)
       IN  /\ hs' = IF IsErr(out.result) THEN HsFail(hs, out.result)
                    ELSE [hs EXCEPT !.pc = "loop"]
           /\ peer' = IF writeOk THEN peer ELSE PeerOff
           /\ last' = LastOp("identify", 0, out.result, out.wrote)
  /\ UNCHANGED <<proto, state, run, conv, player, media, udp>>

\* finish_flow returns Ok(()) once the key is not all zero
HsReturn ==
  /\ hs.pc = "loop"
  /\ ~key_is_zero(proto.secret_key)
  /\ hs' = [hs EXCEPT !.pc = "gil", !.result = NoError]
  /\ last' = LastOp("finish_flow", 0, NoError, <<>>)
  /\ UNCHANGED <<proto, state, run, peer, conv, player, media, udp>>

\* the thread with the interpreter lock: set_exception with the error, or
\* set_result with the VoiceConnection made of the engine
hs_complete(h, loopOk) ==
  [h EXCEPT !.pc = "done",
            !.future = IF IsErr(h.result)
                         THEN set_exception(@, PyErrFrom(h.result), loopOk)
                         ELSE set_result(@, PyConnection, loopOk)]
HsComplete(loopOks) ==
  /\ hs.pc = "gil"
  /\ \E loopOk \in loopOks : hs' = hs_complete(hs, loopOk)
  /\ UNCHANGED <<proto, state, run, peer, last, conv, player, media, udp>>

(***************************************************************************)
(* lib.rs, VoiceConnection: run(), disconnect(); protocol.rs: close()      *)
(***************************************************************************)
\* run maps the number of a run() call on the Connection to its thread
\* pc: "none" (run() not called) -> "polling" -> "gil" -> "done"; "recv"
\*   when the thread is inside a poll() that does not return, the mutex held;
\*   "gil" when poll() has returned Err, the mutex is released and the thread
\*   waits in Python::acquire_gil()
\*   result  the error poll() returned
\*   errors  how often the arm `if let Err(e) = result` has run
\*   future  the completions the thread has handed to call_soon_threadsafe
RunIdle ==
  [pc |-> "none", polls |-> 0, errors |-> 0, result |-> NoError,
   future |-> FuturePending]

Runs == 1..MaxRuns
NoRuns == [t \in Runs |-> RunIdle]

\* the Connection exists once connect() has resolved its future with it
ConnectionExists == hs.pc = "done" /\ ~IsErr(hs.result) /\ hs.future.sets = 1

\* a slip: every error rejects the future with its classified exception
run_on_error_reject_all(r, err, loopOk) ==
  [r EXCEPT !.pc = "done", !.errors = @ + 1, !.result = err,
            !.future = set_exception(@, PyErrFrom(err), loopOk)]

\* a slip: the loop is not left after the future has been completed
run_on_error_no_break(r, err, loopOk) ==
  [r EXCEPT !.pc = "polling", !.errors = @ + 1, !.result = err,
            !.future = IF err.kind = "Closed" /\ code_can_be_handled(err.code)
                         THEN set_result(@, PyNone, loopOk)
                         ELSE set_exception(@, PyErrFrom(err), loopOk)]

\* run(): the arm `if let Err(e) = result` of the loop, entered with the
\* interpreter lock
run_on_error(r, err, loopOk) ==
  [r EXCEPT !.pc = "done", !.errors = @ + 1, !.result = err,
            !.future = IF err.kind = "Closed" /\ code_can_be_handled(err.code)
                         THEN set_result(@, PyNone, loopOk)
                         ELSE set_exception(@, PyErrFrom(err), loopOk)]

Pipelines == 1..MaxPlays

\* the mutex of the engine (Arc<Mutex<DiscordVoiceProtocol>>) is free: the
\* thread of run() is not inside a poll() and no media thread holds it
MutexFree == \A q \in Pipelines : media[q].mutex = "none"
EngineMutexFree == MutexFree /\ \A t \in Runs : run[t].pc # "recv"

\* the host thread is not inside a call on the Connection: play() is not
\* waiting in AudioPlayer::new (it waits there with the interpreter lock)
HostIdle == \A q \in Pipelines : media[q].pc # "new"

\* run(loop): creates the future (`?`: the call returns the exception
\* when loop.create_future() raises, futureOk false) and spawns a thread.
\* Every call spawns one, whatever the threads of earlier calls do; threads
\* are the numbers the calls of this behaviour may take
RunCall(futureOks, threads) ==
  /\ ConnectionExists
  /\ HostIdle
  /\ \E futureOk \in futureOks :
       IF futureOk
         THEN /\ \E t \in threads :
                   /\ run[t].pc = "none"
                   /\ \A u \in threads : u < t => run[u].pc # "none"
                   /\ run' = [run EXCEPT ![t].pc = "polling"]
              /\ last' = LastOp("run", 0, NoError, <<>>)
         ELSE /\ run' = run
              /\ last' = LastOp("run", 0, PyRuntimeError("create_future"), <<>>)
  /\ UNCHANGED <<proto, state, hs, peer, conv, player, media, udp>>

\* one iteration of the loop of a thread of run(): poll() under the mutex,
\* which is released when poll() returns
RunPoll(msgs, scripts, maxPolls) ==
  /\ EngineMutexFree
  /\ \E t \in Runs :
       /\ run[t].pc = "polling"
       /\ run[t].polls < maxPolls
       /\ \E env \in PollEnvs(proto, msgs, scripts) :
            LET out == poll(proto, state, env)
                r == [run[t] EXCEPT !.polls = @ + 1]
            IN  /\ proto' = out.proto
                /\ state' = out.state
                /\ run' = [run EXCEPT ![t] =
                             IF out.result = Blocked THEN [r EXCEPT !.pc = "recv"]
                             ELSE IF IsErr(out.result)
                               THEN [r EXCEPT !.pc = "gil", !.result = out.result]
                             ELSE r]
                /\ last' = LastPoll("run", proto, env, out)
  /\ UNCHANGED <<hs, peer, conv, player, media, udp>>

\* a thread of run() after a poll() that returned Err: it gets the
\* interpreter lock, hands set_result or set_exception to
\* loop.call_soon_threadsafe and leaves the loop
RunComplete(loopOks) ==
  /\ HostIdle
  /\ \E t \in Runs, loopOk \in loopOks :
       /\ run[t].pc = "gil"
       /\ run' = [run EXCEPT ![t] = run_on_error(run[t], run[t].result, loopOk)]
  /\ UNCHANGED <<proto, state, hs, peer, last, conv, player, media, udp>>

\* disconnect(): close(1000) under the mutex, for which it waits
Disconnect ==
  /\ ConnectionExists
  /\ HostIdle
  /\ EngineMutexFree
  /\ \E writeOk \in BOOLEAN :
       LET out == close(proto, state, NormalClosure, writeOk)
       IN  /\ proto' = out.proto
           /\ state' = out.state
           /\ last' = LastOp("disconnect", 0, out.result, out.wrote)
  /\ UNCHANGED <<hs, run, peer, conv, player, media, udp>>

\* DiscordVoiceProtocol::close(code), called on the engine directly
CloseCall(codes) ==
  /\ ConnectionExists
  /\ HostIdle
  /\ EngineMutexFree
  /\ \E code \in codes, writeOk \in BOOLEAN :
       LET out == close(proto, state, code, writeOk)
       IN  /\ proto' = out.proto
           /\ state' = out.state
           /\ last' = LastOp("close", code, out.result, out.wrote)
  /\ UNCHANGED <<hs, run, peer, conv, player, media, udp>>

\* send_playing(): SPEAKING(microphone) written by the host thread under
\* the mutex
SendPlaying ==
  /\ ConnectionExists
  /\ HostIdle
  /\ EngineMutexFree
  /\ \E writeOk \in BOOLEAN :
       LET out == speaking(proto, state, MICROPHONE, writeOk)
       IN  /\ proto' = out.proto
           /\ state' = out.state
           /\ last' = LastOp("send_playing", MICROPHONE, out.result, out.wrote)
  /\ UNCHANGED <<hs, run, peer, conv, player, media, udp>>

(***************************************************************************)
(* lib.rs: play(), stop(); player.rs: AudioPlayer and audio_play_loop      *)
(***************************************************************************)

\* the media thread of one play().
\*   pc       where the thread is: "unborn", "new" (play() has spawned the
\*            decoder and waits for the mutex in AudioPlayer::new, no thread
\*            yet), "setup", then in the loop
\*            "chk_finished", "chk_paused", "wait_not_paused", "chk_disc",
\*            "wait_connected", "rebuild", "frame", then "speak_off", "done"
\*   enc      its AudioEncoder, sock the UdpSocket it cloned
\*   src      frames the decoder still has
\*   built    headers the current AudioEncoder has written, hdr the last one,
\*            prev_sequence the sequence of the one before
\*   sent     datagrams of this thread that left, dropped those dropped
\*   left     datagrams of the current AudioEncoder that left
\*   how      how the last send attempt of the current AudioEncoder went
\*   opus     the bytes the codec produced for the last frame, plain the
\*            bytes that were encrypted for it, nonce the nonce used, dgram
\*            the bytes handed to send_to
\*   held     pause() was called while this thread was alive and resume()
\*            has not been called since; grace: at that pause() the thread
\*            was past the pause check of its iteration, which has not ended
\*   err      the error audio_play_loop returned
\*   stopped  stop() was called on the AudioPlayer of this thread
\*   used     the nonces the thread has encrypted with, each with its key
\*   addr     `let addr = socket.peer_addr()?`, taken once before the loop
\*   dest     the address the last datagram that left was sent to
\*   source   who holds an Arc of the audio source (the decoder subprocess):
\*            the AudioPlayer ("player"), the closure of the thread
\*            ("thread"); the decoder is killed when the last one is dropped
\*   mutex    "held" while the thread holds the mutex of the engine in a
\*            behaviour that shows the acquisition as a step of its own
\*   kind     AudioSource::get_type of its source: "Pcm" or "Opus"
\*   speak    the SPEAKING sends the thread attempted, in order: the flags,
\*            whether the frame was written, and how many datagrams of the
\*            thread had left by then
\* socket.peer_addr(): the address a socket is connected to; a socket that
\* was connected to port 0 has no peer (getpeername gives ENOTCONN)
NoAddr == [ip |-> "", port |-> 0]
peer_addr(sock) ==
  IF sock.port = 0 THEN Fail(Io("Transport endpoint is not connected"))
  ELSE Ok([ip |-> sock.ip, port |-> sock.port])

MediaUnborn ==
  [pc |-> "unborn", enc |-> NoEncoder, sock |-> NoSocket, src |-> 0,
   built |-> 0, sent |-> 0, dropped |-> 0, hdr |-> NoHeader,
   prev_sequence |-> 0, err |-> NoError, stopped |-> FALSE,
   left |-> 0, how |-> "", opus |-> <<>>, dgram |-> <<>>, nonce |-> <<>>,
   plain |-> <<>>, held |-> FALSE, grace |-> FALSE, speak |-> <<>>,
   source |-> {}, mutex |-> "none", slept |-> FALSE, used |-> {},
   addr |-> NoAddr, dest |-> NoAddr, kind |-> "Pcm"]
Spoke(m, flags, sp) ==
  Append(m.speak, [flags |-> flags, ok |-> ~IsErr(sp.result), sent |-> m.sent])
MediaPending(frames) ==
  [MediaUnborn EXCEPT !.pc = "new", !.src = frames, !.source = {"player"}]
MediaSpawned(frames) ==
  [MediaUnborn EXCEPT !.pc = "setup", !.src = frames,
                      !.source = {"player", "thread"}]

\* the thread in its loop after n iterations that each sent a datagram of
\* MaxOpusLen opus bytes, with frames more to come
MediaAt(p, n, frames) ==
  Bind(clone_socket(p, TRUE).val, LAMBDA sock :
  Bind(EncoderAt(p, n - 2), LAMBDA e :
  Bind(EncodeAndSend(e, OpusOf(MaxOpusLen), "sent", RandomOf(0)), LAMBDA first :
  Bind(EncodeAndSend(first.enc, OpusOf(MaxOpusLen), "sent", RandomOf(0)),
       LAMBDA second :
      [MediaSpawned(frames) EXCEPT
         !.pc = "chk_finished",
         !.speak = <<[flags |-> MICROPHONE, ok |-> TRUE, sent |-> 0]>>,
         !.sock = sock,
         !.addr = peer_addr(sock).val,
         !.dest = peer_addr(sock).val,
         !.enc = second.enc,
         !.built = n,
         !.sent = n,
         !.left = n,
         !.how = "sent",
         !.slept = TRUE,
         !.hdr = second.header,
         !.opus = OpusOf(MaxOpusLen),
         !.dgram = second.datagram,
         !.nonce = second.nonce,
         !.used = {[key |-> p.secret_key, nonce |-> first.nonce],
                   [key |-> p.secret_key, nonce |-> second.nonce]},
         !.plain = second.plain,
         !.prev_sequence = first.header.sequence]))))

\* the thread whose encoder is two packets past u packets (u a u32 at which
\* the counters of the thread, which are numbers, start)
MediaAtU(p, u, frames) ==
  Bind(clone_socket(p, TRUE).val, LAMBDA sock :
  Bind(EncoderAtU(p, u), LAMBDA e :
  Bind(EncodeAndSend(e, OpusOf(MaxOpusLen), "sent", RandomOf(0)), LAMBDA first :
  Bind(EncodeAndSend(first.enc, OpusOf(MaxOpusLen), "sent", RandomOf(0)),
       LAMBDA second :
      [MediaSpawned(frames) EXCEPT
         !.pc = "chk_finished",
         !.speak = <<[flags |-> MICROPHONE, ok |-> TRUE, sent |-> 0]>>,
         !.sock = sock,
         !.addr = peer_addr(sock).val,
         !.dest = peer_addr(sock).val,
         !.enc = second.enc,
         !.built = 2,
         !.sent = 2,
         !.left = 2,
         !.how = "sent",
         !.slept = TRUE,
         !.hdr = second.header,
         !.opus = OpusOf(MaxOpusLen),
         !.dgram = second.datagram,
         !.nonce = second.nonce,
         !.used = {[key |-> p.secret_key, nonce |-> first.nonce],
                   [key |-> p.secret_key, nonce |-> second.nonce]},
         !.plain = second.plain,
         !.prev_sequence = first.header.sequence]))))

NoPlayer ==
  /\ player = 0
  /\ media = [p \in Pipelines |-> MediaUnborn]
  /\ udp = [last |-> 0, max |-> 0]

Born == {p \in Pipelines : media[p].pc # "unborn"}
Exited(p) == media[p].pc \in {"unborn", "new", "done"}
NothingRunning == \A p \in Pipelines : Exited(p)

\* AudioPlayer::stop of the player the Connection owns
PlayerStopped(m) == IF player # 0 THEN [m EXCEPT ![player].stopped = TRUE] ELSE m

\* self.player = Some(player): the AudioPlayer the Connection owned is
\* dropped, and its Arc of the source with it
PlayerDropped(m) ==
  IF player # 0 THEN [m EXCEPT ![player].source = @ \ {"player"}] ELSE m

\* play(uri) up to the wait for the mutex: stops the player it owns and
\* spawns the decoder (`?`: the call returns when that fails); the source is
\* wrapped for the AudioPlayer to come
Play(frames) ==
  /\ ConnectionExists
  /\ HostIdle
  /\ Cardinality(Born) < MaxPlays
  /\ \E spawnOk \in BOOLEAN, n \in frames :
       LET id == Cardinality(Born) + 1
       IN  /\ state' = IF player # 0 THEN FINISHED ELSE state
           /\ IF spawnOk
                THEN /\ media' = [PlayerStopped(media) EXCEPT
                                    ![id] = MediaPending(n)]
                     /\ last' = last
                ELSE /\ media' = PlayerStopped(media)
                     /\ last' = LastOp("play", id, Io("spawn"), <<>>)
  /\ UNCHANGED <<proto, hs, run, peer, conv, player, udp>>

\* the rest of play(uri): AudioPlayer::new takes the mutex for clone_state()
\* and spawns the thread, then the Connection stores the player
PlayStart(p) ==
  /\ media[p].pc = "new"
  /\ EngineMutexFree
  /\ media' = [PlayerDropped(media) EXCEPT ![p] = MediaSpawned(media[p].src)]
  /\ player' = p
  /\ last' = LastOp("play", p, NoError, <<>>)
  /\ UNCHANGED <<proto, state, hs, run, peer, conv, udp>>

\* AudioPlayer::new called with a source of the caller (the constructor and
\* the trait AudioSource are public): it takes the mutex for clone_state()
\* and spawns the thread. The Connection does not own this player
AudioPlayer_new(kinds, frames) ==
  /\ ConnectionExists
  /\ EngineMutexFree
  /\ Cardinality(Born) < MaxPlays
  /\ \E k \in kinds, n \in frames :
       LET id == Cardinality(Born) + 1
       IN  /\ media' = [media EXCEPT ![id] = [MediaSpawned(n) EXCEPT !.kind = k]]
           /\ last' = LastOp("AudioPlayer::new", id, NoError, <<>>)
  /\ UNCHANGED <<proto, state, hs, run, peer, conv, player, udp>>

\* stop(). last.arg is the register before the call, last.read tells whether
\* a media thread was alive then
Stop ==
  /\ ConnectionExists
  /\ HostIdle
  /\ state' = IF player # 0 THEN FINISHED ELSE state
  /\ media' = PlayerStopped(media)
  /\ last' = [LastOp("stop", state, NoError, <<>>) EXCEPT
                !.read = IF NothingRunning THEN "idle" ELSE "running"]
  /\ UNCHANGED <<proto, hs, run, peer, conv, player, udp>>

\* PlayingState::is_playing, and is_playing() of the Connection: that of the
\* AudioPlayer it owns, false when it owns none
is_playing(st) == st = PLAYING
Connection_is_playing == IF player # 0 THEN is_playing(state) ELSE FALSE

\* the AudioPlayer values that exist: AudioPlayer::new has returned them and
\* they have not been dropped
Players ==
  {p \in Pipelines : media[p].pc \notin {"unborn", "new"}
                        /\ "player" \in media[p].source}
\* those in the hands of a caller of AudioPlayer::new. The player of play()
\* is in the private field of the Connection, which has no pause() and no
\* resume()
CallerPlayers == Players \ {player}

\* AudioPlayer::pause, AudioPlayer::resume and AudioPlayer::stop of player
\* id: each stores into the register the player shares with the engine and
\* with every other player of that engine
PastPauseCheck == {"chk_disc", "wait_connected", "rebuild", "frame"}
PlayerPause(ids) ==
  /\ \E id \in ids \cap Players :
       /\ state' = PAUSED
       /\ media' = [p \in Pipelines |->
                      IF Exited(p) THEN media[p]
                      ELSE [media[p] EXCEPT !.held = TRUE,
                                            !.grace = media[p].pc \in PastPauseCheck]]
       /\ last' = LastOp("pause", id, NoError, <<>>)
  /\ UNCHANGED <<proto, hs, run, peer, conv, player, udp>>

PlayerResume(ids) ==
  /\ \E id \in ids \cap Players :
       /\ state' = PLAYING
       /\ media' = [p \in Pipelines |->
                      [media[p] EXCEPT !.held = FALSE, !.grace = FALSE]]
       /\ last' = LastOp("resume", id, NoError, <<>>)
  /\ UNCHANGED <<proto, hs, run, peer, conv, player, udp>>

PlayerStop(ids) ==
  /\ \E id \in ids \cap Players :
       /\ state' = FINISHED
       /\ media' = [media EXCEPT ![id].stopped = TRUE]
       /\ last' = LastOp("AudioPlayer::stop", id, NoError, <<>>)
  /\ UNCHANGED <<proto, hs, run, peer, conv, player, udp>>

\* a slip: the mutex is taken before the wait for Connected
MediaAcquire_before_wait(p) ==
  /\ media[p].pc \in {"setup", "wait_connected", "rebuild", "speak_off"}
  /\ \A q \in Pipelines : media[q].mutex = "none"
  /\ media' = [media EXCEPT ![p].mutex = "held"]
  /\ UNCHANGED <<proto, state, hs, run, peer, last, conv, player, udp>>

\* protocol.lock() of the thread: before the loop, after
\* wait_until_connected(), and in the closure after the loop; the guard is
\* dropped at the end of the block (MediaSetup, MediaRebuild, MediaSpeakOff)
MediaAcquire(p) ==
  /\ media[p].pc \in {"setup", "rebuild", "speak_off"}
  /\ EngineMutexFree
  /\ media' = [media EXCEPT ![p].mutex = "held"]
  /\ UNCHANGED <<proto, state, hs, run, peer, last, conv, player, udp>>

\* the thread has the mutex: taken in a step of its own, or in this one
Holds(p) == media[p].mutex = "held"
Locks(p) == Holds(p) \/ EngineMutexFree

\* audio_play_loop before the loop, under the mutex: SPEAKING(microphone),
\* the encoder (encOk: the codec gives one), the socket, and then the address
\* of its peer, which send_to is given for every datagram (`?`: a socket
\* without a peer ends the thread here)
MediaSetup(p, writeOks, encOks, cloneOks) ==
  /\ media[p].pc = "setup"
  /\ Locks(p)
  /\ \E writeOk \in writeOks, encOk \in encOks, cloneOk \in cloneOks :
       LET sp == speaking(proto, state, MICROPHONE, writeOk)
           sk == clone_socket(sp.proto, cloneOk)
           m == [media[p] EXCEPT !.speak = Spoke(media[p], MICROPHONE, sp),
                                 !.mutex = "none"]
       IN  /\ proto' = sp.proto
           /\ state' = sp.state
           /\ media' = [media EXCEPT ![p] =
                CASE IsErr(sp.result) ->
                       [m EXCEPT !.pc = "speak_off", !.err = sp.result]
                  [] ~IsErr(sp.result) /\ ~encOk ->
                       [m EXCEPT !.pc = "speak_off", !.err = Opus]
                  [] ~IsErr(sp.result) /\ encOk /\ ~sk.ok ->
                       [m EXCEPT !.pc = "speak_off", !.err = sk.err,
                                 !.enc = AudioEncoder_from_protocol(sp.proto)]
                  [] ~IsErr(sp.result) /\ encOk /\ sk.ok
                       /\ ~peer_addr(sk.val).ok ->
                       [m EXCEPT !.pc = "speak_off", !.sock = sk.val,
                                 !.err = peer_addr(sk.val).err,
                                 !.enc = AudioEncoder_from_protocol(sp.proto)]
                  [] OTHER ->
                       [m EXCEPT !.pc = "chk_finished", !.sock = sk.val,
                                 !.addr = peer_addr(sk.val).val,
                                 !.enc = AudioEncoder_from_protocol(sp.proto)]]
  /\ UNCHANGED <<hs, run, peer, last, conv, player, udp>>

\* if state.is_finished() { break; }
MediaChkFinished(p) ==
  /\ media[p].pc = "chk_finished"
  /\ media' = [media EXCEPT ![p].pc =
                 IF state = FINISHED THEN "speak_off" ELSE "chk_paused"]
  /\ UNCHANGED <<proto, state, hs, run, peer, last, conv, player, udp>>

\* if state.is_paused() { .. }
MediaChkPaused(p) ==
  /\ media[p].pc = "chk_paused"
  /\ media' = [media EXCEPT ![p].pc =
                 IF state = PAUSED THEN "wait_not_paused" ELSE "chk_disc"]
  /\ UNCHANGED <<proto, state, hs, run, peer, last, conv, player, udp>>

\* state.wait_until_not_paused(); continue;
MediaWaitNotPaused(p) ==
  /\ media[p].pc = "wait_not_paused"
  /\ state # PAUSED
  /\ media' = [media EXCEPT ![p].pc = "chk_finished"]
  /\ UNCHANGED <<proto, state, hs, run, peer, last, conv, player, udp>>

\* if state.is_disconnected() { .. }
MediaChkDisc(p) ==
  /\ media[p].pc = "chk_disc"
  /\ media' = [media EXCEPT ![p].pc =
                 IF state = DISCONNECTED THEN "wait_connected" ELSE "frame"]
  /\ UNCHANGED <<proto, state, hs, run, peer, last, conv, player, udp>>

\* state.wait_until_connected()
MediaWaitConnected(p) ==
  /\ media[p].pc = "wait_connected"
  /\ state = CONNECTED
  /\ media' = [media EXCEPT ![p].pc = "rebuild"]
  /\ UNCHANGED <<proto, state, hs, run, peer, last, conv, player, udp>>

\* under the mutex: a new encoder and a new clone of the socket
MediaRebuild(p, encOks, cloneOks) ==
  /\ media[p].pc = "rebuild"
  /\ Locks(p)
  /\ \E encOk \in encOks, cloneOk \in cloneOks :
       LET sk == clone_socket(proto, cloneOk)
           m == [media[p] EXCEPT !.enc = AudioEncoder_from_protocol(proto),
                                 !.mutex = "none",
                                 !.built = 0, !.hdr = NoHeader,
                                 !.prev_sequence = 0, !.left = 0, !.how = "",
                                 !.opus = <<>>, !.dgram = <<>>,
                                 !.nonce = <<>>, !.plain = <<>>]
       IN  media' = [media EXCEPT ![p] =
             IF ~encOk THEN [media[p] EXCEPT !.pc = "speak_off", !.err = Opus,
                                             !.mutex = "none"]
             ELSE IF sk.ok THEN [m EXCEPT !.pc = "frame", !.sock = sk.val]
             ELSE [m EXCEPT !.pc = "speak_off", !.err = sk.err]]
  /\ UNCHANGED <<proto, state, hs, run, peer, last, conv, player, udp>>

\* the rest of the iteration: a frame is read and, from a Pcm source,
\* encoded (payloads: what the codec may produce for it, or what an Opus
\* source may give, nothing included), the packet is built and sent, the
\* thread sleeps; at the end of the source state.finished()
\*   slept  whether this iteration reached thread::sleep(next_iteration - now),
\*          which stands inside `if size != 0`, after the send
MediaFrame(p, hows, payloads, rnds) ==
  /\ media[p].pc = "frame"
  /\ LET m == media[p]
     IN  IF m.src = 0
           THEN /\ state' = FINISHED
                /\ media' = [media EXCEPT ![p].pc = "chk_finished"]
                /\ udp' = udp
           ELSE /\ state' = state
                /\ \E how \in hows, opus \in payloads, rnd \in rnds :
                     /\ (how = "dropped") => (m.dropped < MaxDrops)
                     /\ (how = "encode_err") => (m.kind = "Pcm")
                     /\ IF how = "encode_err"
                          THEN /\ media' = [media EXCEPT ![p] =
                                    [m EXCEPT !.pc = "speak_off", !.err = Opus,
                                              !.slept = FALSE,
                                              !.src = @ - 1]]
                               /\ udp' = udp
                          ELSE IF Len(opus) = 0
                          THEN /\ media' = [media EXCEPT ![p] =
                                    [m EXCEPT !.pc = "chk_finished",
                                              !.grace = FALSE,
                                              !.slept = FALSE,
                                              !.src = @ - 1]]
                               /\ udp' = udp
                          ELSE \E att \in {ReadAndSend(m.kind, m.enc, opus, how, rnd)} :
                                   /\ media' = [media EXCEPT ![p] =
                                        [m EXCEPT
                                           !.opus = opus,
                                           !.grace = FALSE,
                                           !.dgram = att.datagram,
                                           !.nonce = att.nonce,
                                           !.used = @ \cup
                                             {[key |-> m.enc.key,
                                               nonce |-> att.nonce]},
                                           !.plain = att.plain,
                                           !.pc = IF IsErr(att.result)
                                                    THEN "speak_off"
                                                    ELSE "chk_finished",
                                           !.err = att.result,
                                           !.slept = ~IsErr(att.result),
                                           !.src = @ - 1,
                                           !.enc = att.enc,
                                           !.built = @ + 1,
                                           !.prev_sequence = m.hdr.sequence,
                                           !.hdr = att.header,
                                           !.sent = IF att.left THEN @ + 1 ELSE @,
                                           !.dest = IF att.left THEN m.addr ELSE @,
                                           !.left = IF att.left THEN @ + 1 ELSE @,
                                           !.how = how,
                                           !.dropped = IF how = "dropped"
                                                         THEN @ + 1 ELSE @]]
                                   /\ udp' = IF att.left
                                               THEN [last |-> p,
                                                     max |-> Max(udp.max, p)]
                                               ELSE udp
  /\ UNCHANGED <<proto, hs, run, peer, last, conv, player>>

\* a slip: SPEAKING(off) only when the loop ended without an error
MediaSpeakOff_only_on_ok(p, writeOks) ==
  /\ media[p].pc = "speak_off"
  /\ \E writeOk \in writeOks :
       LET sp == speaking(proto, state, SPEAKING_OFF, writeOk)
       IN  /\ proto' = sp.proto
           /\ state' = sp.state
           /\ media' = [media EXCEPT
                          ![p].pc = "done",
                          ![p].mutex = "none",
                          ![p].source = @ \ {"thread"},
                          ![p].speak = IF IsErr(media[p].err) THEN @
                                       ELSE Spoke(media[p], SPEAKING_OFF, sp)]
  /\ UNCHANGED <<hs, run, peer, last, conv, player, udp>>

\* a slip: a loop that ended with an error marks the connection as lost
MediaSpeakOff_disconnects(p, writeOks) ==
  /\ media[p].pc = "speak_off"
  /\ \E writeOk \in writeOks :
       LET sp == speaking(proto, state, SPEAKING_OFF, writeOk)
       IN  /\ proto' = sp.proto
           /\ state' = IF IsErr(media[p].err) THEN DISCONNECTED ELSE sp.state
           /\ media' = [media EXCEPT
                          ![p].pc = "done",
                          ![p].mutex = "none",
                          ![p].source = @ \ {"thread"},
                          ![p].speak = Spoke(media[p], SPEAKING_OFF, sp)]
  /\ UNCHANGED <<hs, run, peer, last, conv, player, udp>>

\* the thread after the loop, under the mutex: SPEAKING(off), error ignored;
\* the closure returns and what it captured is dropped
MediaSpeakOff(p, writeOks) ==
  /\ media[p].pc = "speak_off"
  /\ Locks(p)
  /\ \E writeOk \in writeOks :
       LET sp == speaking(proto, state, SPEAKING_OFF, writeOk)
       IN  /\ proto' = sp.proto
           /\ state' = sp.state
           /\ media' = [media EXCEPT
                          ![p].pc = "done",
                          ![p].mutex = "none",
                          ![p].source = @ \ {"thread"},
                          ![p].speak = Spoke(media[p], SPEAKING_OFF, sp)]
  /\ UNCHANGED <<hs, run, peer, last, conv, player, udp>>

(***************************************************************************)
(* lib.rs, From<ProtocolError> for PyErr, applied to an arbitrary error    *)
(***************************************************************************)
CloseCodes16 == 0..(U16Modulus - 1)
ProtocolErrors ==
  {Closed(c) : c \in CloseCodes16}
  \cup {Serde, Opus, Nacl, WebSocketErr, Io("io"), custom_error("No socket found")}

ConvNone == [given |-> FALSE, err |-> NoError, py |-> NoPyErr]

Convert ==
  /\ conv.given
  /\ conv.py = NoPyErr
  /\ conv' = [conv EXCEPT !.py = PyErrFrom(conv.err)]
  /\ last' = LastOp("from", 0, NoError, <<>>)
  /\ UNCHANGED <<proto, state, hs, run, peer, player, media, udp>>


InitClassify ==
  /\ NoPlayer
  /\ proto = ProtocolNew
  /\ state = DISCONNECTED
  /\ hs = HsIdle
  /\ run = NoRuns
  /\ peer = PeerStart
  /\ last = LastOp("new", 0, NoError, <<>>)
  /\ conv \in {[given |-> TRUE, err |-> e, py |-> NoPyErr] : e \in ProtocolErrors}

NextClassify == Convert

SpecClassify == InitClassify /\ [][NextClassify]_vars

(***************************************************************************)
(* The handshake: VoiceConnector::connect from the construction on         *)
(***************************************************************************)
KnownList == <<"xsalsa20_poly1305", "xsalsa20_poly1305_lite">>
UnknownList == <<UnknownModeString>>

HandshakeMsgs ==
  {HelloFrame(i) : i \in HelloIntervals}
  \cup {ReadyFrame(1, "203.0.113.5", 50001, KnownList),
        ReadyFrame(1, "203.0.113.5", 50001, UnknownList),
        TextFrame(READY, FALSE, NoPayload)}
  \cup {SessionDescriptionFrame(m, k) :
          m \in {"xsalsa20_poly1305_lite", UnknownModeString}, k \in Keys}
  \cup {TextFrame(HEARTBEAT, TRUE, NoPayload),
        TextFrame(HEARTBEAT_ACK, TRUE, NoPayload),
        TextFrame(RESUMED, TRUE, NoPayload),
        BadJsonFrame, OtherFrame,
        CloseFrameIn(TRUE, 4006), CloseFrameIn(FALSE, 0)}

InitHandshake ==
  /\ NoPlayer
  /\ proto = ProtocolNew
  /\ state = DISCONNECTED
  /\ hs \in {HsNew(r) : r \in BOOLEAN}
  /\ run = NoRuns
  /\ peer = PeerStart
  /\ last = LastOp("new", 0, NoError, <<>>)
  /\ conv = ConvNone

NextHandshake ==
  \/ Dial
  \/ HsPoll(HandshakeMsgs, DiscoveryScripts)
  \/ HsIdentify
  \/ HsReturn
  \/ HsComplete({TRUE})

SpecHandshake == InitHandshake /\ [][NextHandshake]_vars

(***************************************************************************)
(* The negotiation: the same thread, with a peer that follows the order of *)
(* the handshake and advertises every list of modes in its READY           *)
(***************************************************************************)
NegotiateMsgs ==
  CASE peer.stage = "start" -> {HelloFrame(F64Of(41250))}
    [] peer.stage = "hello" ->
         {ReadyFrame(1, ip, 50001, modes) : ip \in PeerIps, modes \in ModeLists}
    [] peer.stage = "ready" ->
         {SessionDescriptionFrame("xsalsa20_poly1305_lite", [i \in 1..KeyLen |-> 1])}
    [] OTHER -> {}
NegotiateScripts == {GoodScript, FailingScript(MaxRetries + 1, "recv_err")}

NextNegotiate ==
  \/ Dial
  \/ HsPoll(NegotiateMsgs, NegotiateScripts)
  \/ HsIdentify
  \/ HsReturn
  \/ HsComplete(BOOLEAN)

SpecNegotiate == InitHandshake /\ [][NextNegotiate]_vars

(***************************************************************************)
(* The established Connection: run(), disconnect() and close()             *)
(***************************************************************************)
MsgEnv(m) == [QuietEnv EXCEPT !.read = "msg", !.msg = m, !.wait = 0]
SessionKey == [i \in 1..KeyLen |-> 1]
OtherKey == [i \in 1..KeyLen |-> IF i = 1 THEN 0 ELSE 1]

\* the engine and the register after the handshake of scenario S1
AfterHello == poll(ProtocolNew, DISCONNECTED, MsgEnv(HelloFrame(F64Of(41250))))
AfterReady ==
  poll(AfterHello.proto, AfterHello.state,
       MsgEnv(ReadyFrame(1, "203.0.113.5", 50001, KnownList)))
Established ==
  poll(AfterReady.proto, AfterReady.state,
       MsgEnv(SessionDescriptionFrame("xsalsa20_poly1305_lite", SessionKey)))

HsEstablished ==
  [pc |-> "done", resume |-> FALSE, result |-> NoError, polls |-> 3,
   future |-> set_result(FuturePending, PyConnection, TRUE)]
PeerEstablished ==
  [stage |-> "described", interval |-> F64Of(41250), key |-> SessionKey]

RunCloseCodes == {1000, 4006, 4014, 4015}

RunMsgs ==
  {CloseFrameIn(TRUE, c) : c \in RunCloseCodes}
  \cup {CloseFrameIn(FALSE, 0),
        SessionDescriptionFrame("xsalsa20_poly1305_suffix", OtherKey),
        SessionDescriptionFrame(UnknownModeString, OtherKey),
        TextFrame(HEARTBEAT, TRUE, NoPayload),
        TextFrame(HEARTBEAT_ACK, TRUE, NoPayload),
        TextFrame(CLIENT_DISCONNECT, TRUE, NoPayload),
        BadJsonFrame, OtherFrame}

InitRun ==
  /\ NoPlayer
  /\ proto = Established.proto
  /\ state = Established.state
  /\ hs = HsEstablished
  /\ run = NoRuns
  /\ peer = PeerEstablished
  /\ last = LastOp("connect", 0, NoError, <<>>)
  /\ conv = ConvNone

NextRun ==
  \/ RunCall(BOOLEAN, {1})
  \/ SendPlaying
  \/ RunPoll(RunMsgs, {GoodScript}, MaxPolls)
  \/ RunComplete(BOOLEAN)
  \/ Disconnect
  \/ CloseCall({4006, 4014})

SpecRun == InitRun /\ [][NextRun]_vars

(***************************************************************************)
(* The established Connection with play() and stop()                       *)
(***************************************************************************)
PlayMsgs ==
  {SessionDescriptionFrame("xsalsa20_poly1305_suffix", OtherKey),
   CloseFrameIn(TRUE, 4006)}

NextPlay ==
  \/ RunCall({TRUE}, {1})
  \/ RunPoll(PlayMsgs, {GoodScript}, MaxPlayPolls)
  \/ RunComplete({TRUE})
  \/ Disconnect
  \/ Play({MaxPlayFrames})
  \/ \E p \in Pipelines : PlayStart(p)
  \/ Stop
  \/ \E p \in Pipelines :
       \/ MediaSetup(p, BOOLEAN, {TRUE}, {TRUE})
       \/ MediaChkFinished(p)
       \/ MediaChkPaused(p)
       \/ MediaChkDisc(p)
       \/ MediaWaitConnected(p)
       \/ MediaRebuild(p, {TRUE}, {TRUE})
       \/ MediaFrame(p, FrameOutcomes, {OpusOf(MaxOpusLen)}, {RandomOf(0)})
       \/ MediaSpeakOff(p, {TRUE})

SpecPlay == InitRun /\ [][NextPlay]_vars

(***************************************************************************)
(* run() polling an established Connection whose peer only acknowledges    *)
(* heartbeats or is silent; the thread of run() is scheduled again and     *)
(* again                                                                   *)
(***************************************************************************)
\* the engine and the register after a handshake whose HELLO advertises i
EstablishedAt(i) ==
  LET hello == poll(ProtocolNew, DISCONNECTED, MsgEnv(HelloFrame(i)))
      ready == poll(hello.proto, hello.state,
                    MsgEnv(ReadyFrame(1, "203.0.113.5", 50001, KnownList)))
  IN  poll(ready.proto, ready.state,
           MsgEnv(SessionDescriptionFrame("xsalsa20_poly1305_lite", SessionKey)))
BeatIntervals == {F64(13, TRUE), F64(4999, TRUE), F64(41250, FALSE)}
BeatMsgs == {TextFrame(HEARTBEAT_ACK, TRUE, NoPayload)}

InitBeat ==
  /\ NoPlayer
  /\ \E i \in BeatIntervals :
       /\ proto = EstablishedAt(i).proto
       /\ state = EstablishedAt(i).state
       /\ peer = [PeerEstablished EXCEPT !.interval = i]
  /\ hs = HsEstablished
  /\ run = NoRuns
  /\ last = LastOp("connect", 0, NoError, <<>>)
  /\ conv = ConvNone

NextBeat ==
  \/ RunCall({TRUE}, {1})
  \/ RunPoll(BeatMsgs, {GoodScript}, MaxPolls)
  \/ RunComplete({TRUE})

SpecBeat ==
  InitBeat /\ [][NextBeat]_vars
    /\ WF_vars(RunPoll(BeatMsgs, {GoodScript}, MaxPolls))

\* the one pipeline of the states below was started by play() of the
\* Connection (own = 1: the Connection holds the player) or by a caller of
\* AudioPlayer::new with the handle of the engine (own = 0: the caller holds it)
Started(own) ==
  /\ player = own
  /\ last = LastOp(IF own = 0 THEN "AudioPlayer::new" ELSE "play", 1, NoError, <<>>)

(***************************************************************************)
(* One pipeline, new or long-running, with pause(), resume() and dropped   *)
(* sends                                                                   *)
(***************************************************************************)
InitEnc ==
  /\ proto = Established.proto
  /\ state = Established.state
  /\ hs = HsEstablished
  /\ run = NoRuns
  /\ peer = PeerEstablished
  /\ conv = ConvNone
  /\ \E own \in {0, 1} : Started(own)
  /\ \E m \in {MediaSpawned(MaxFrames),
                MediaAt(Established.proto, LongStart, MaxFrames)} :
       /\ media = [p \in Pipelines |-> IF p = 1 THEN m ELSE MediaUnborn]
       /\ udp = IF m.sent = 0 THEN [last |-> 0, max |-> 0]
                ELSE [last |-> 1, max |-> 1]

NextEnc ==
  \/ PlayerPause(CallerPlayers)
  \/ PlayerResume(CallerPlayers)
  \/ \E p \in Pipelines :
       \/ MediaSetup(p, BOOLEAN, BOOLEAN, BOOLEAN)
       \/ MediaChkFinished(p)
       \/ MediaChkPaused(p)
       \/ MediaWaitNotPaused(p)
       \/ MediaChkDisc(p)
       \/ MediaFrame(p, {"sent", "dropped"}, {OpusOf(MaxOpusLen)}, {RandomOf(0)})
       \/ MediaSpeakOff(p, BOOLEAN)

SpecEnc == InitEnc /\ [][NextEnc]_vars

(***************************************************************************)
(* One pipeline with pause() and resume() while run() polls and the peer   *)
(* sends a SESSION_DESCRIPTION again                                       *)
(***************************************************************************)
PauseMsgs == {SessionDescriptionFrame("xsalsa20_poly1305_lite", SessionKey)}

InitPause ==
  /\ proto = Established.proto
  /\ state = Established.state
  /\ hs = HsEstablished
  /\ run = NoRuns
  /\ peer = PeerEstablished
  /\ last = LastOp("play", 1, NoError, <<>>)
  /\ conv = ConvNone
  /\ player = 1
  /\ media = [p \in Pipelines |->
                IF p = 1 THEN MediaSpawned(MaxFrames) ELSE MediaUnborn]
  /\ udp = [last |-> 0, max |-> 0]

\* the same, the pipeline started by play() or by a caller of AudioPlayer::new
InitEither ==
  /\ proto = Established.proto
  /\ state = Established.state
  /\ hs = HsEstablished
  /\ run = NoRuns
  /\ peer = PeerEstablished
  /\ conv = ConvNone
  /\ \E own \in {0, 1} : Started(own)
  /\ media = [p \in Pipelines |->
                IF p = 1 THEN MediaSpawned(MaxFrames) ELSE MediaUnborn]
  /\ udp = [last |-> 0, max |-> 0]

NextPause ==
  \/ RunCall({TRUE}, {1})
  \/ RunPoll(PauseMsgs, {GoodScript}, MaxPlayPolls)
  \/ RunComplete({TRUE})
  \/ PlayerPause(CallerPlayers)
  \/ PlayerResume(CallerPlayers)
  \/ \E p \in Pipelines :
       \/ MediaSetup(p, BOOLEAN, BOOLEAN, BOOLEAN)
       \/ MediaChkFinished(p)
       \/ MediaChkPaused(p)
       \/ MediaWaitNotPaused(p)
       \/ MediaChkDisc(p)
       \/ MediaFrame(p, {"sent", "dropped"}, {OpusOf(MaxOpusLen)}, {RandomOf(0)})
       \/ MediaSpeakOff(p, BOOLEAN)

SpecPause == InitEither /\ [][NextPause]_vars

(***************************************************************************)
(* run() polling an established Connection whose peer sends frames the     *)
(* engine does not handle, acknowledges heartbeats, or is silent           *)
(***************************************************************************)
UnknownOpcode == 255
IgnoredOpcodes ==
  {IDENTIFY, SELECT_PROTOCOL, SPEAKING, RESUME, RESUMED, CLIENT_CONNECT,
   CLIENT_DISCONNECT, UnknownOpcode}
IdleMsgs ==
  {TextFrame(op, dOk, NoPayload) : op \in IgnoredOpcodes, dOk \in BOOLEAN}
  \cup {TextFrame(HEARTBEAT_ACK, TRUE, NoPayload)}

NextIdle ==
  \/ RunCall({TRUE}, {1})
  \/ RunPoll(IdleMsgs, {GoodScript}, MaxPolls)
  \/ RunComplete({TRUE})

SpecIdle == InitBeat /\ [][NextIdle]_vars

(***************************************************************************)
(* udp_discovery: what it makes of the 70 bytes it received                *)
(***************************************************************************)
IpOffset == 4

IsCont(b) == b >= 128 /\ b <= 191
\* std::str::from_utf8 accepts the bytes
RECURSIVE utf8_valid(_)
utf8_valid(bytes) ==
  LET n == Len(bytes)
      b == bytes[1]
      Next1(k) == utf8_valid(SubSeq(bytes, k + 1, n))
  IN  IF n = 0 THEN TRUE
      ELSE IF b < 128 THEN Next1(1)
      ELSE IF b >= 194 /\ b <= 223
        THEN n >= 2 /\ IsCont(bytes[2]) /\ Next1(2)
      ELSE IF b >= 224 /\ b <= 239
        THEN /\ n >= 3
             /\ IsCont(bytes[2]) /\ IsCont(bytes[3])
             /\ (b = 224 => bytes[2] >= 160)
             /\ (b = 237 => bytes[2] <= 159)
             /\ Next1(3)
      ELSE IF b >= 240 /\ b <= 244
        THEN /\ n >= 4
             /\ IsCont(bytes[2]) /\ IsCont(bytes[3]) /\ IsCont(bytes[4])
             /\ (b = 240 => bytes[2] >= 144)
             /\ (b = 244 => bytes[2] <= 143)
             /\ Next1(4)
      ELSE FALSE

\* the part of udp_discovery after socket.recv: the position of the first
\* zero byte of buffer[4..], the bytes before it as a string, the port from
\* the last two bytes
parse_discovery(buffer) ==
  LET rest == SubSeq(buffer, IpOffset + 1, Len(buffer))
      zeros == {i \in 1..Len(rest) : rest[i] = 0}
      ip_end == (CHOOSE i \in zeros : \A j \in zeros : i <= j) - 1
      ip_slice == SubSeq(buffer, IpOffset + 1, IpOffset + ip_end)
      port == buffer[69] * 256 + buffer[70]
  IN  IF zeros = {} THEN Attempt("no_null", <<>>, 0)
      ELSE IF ~utf8_valid(ip_slice) THEN Attempt("bad_utf8", <<>>, 0)
      ELSE Attempt("ok", ip_slice, port)

\* the responses of the UDP peer: an address of n characters or bytes that
\* are no string, the rest of the field zero or not, and a port
AsciiIp(n) == [i \in 1..n |-> 49 + (i % 9)]
ResponseIps ==
  {AsciiIp(n) : n \in {0, 1, 9, 63, 64}}
  \cup {<<195, 169>>, <<195>>, <<255, 49>>, <<49, 237, 160, 128>>}
ResponsePorts == {<<0, 0>>, <<0, 80>>, <<48, 0>>, <<195, 80>>, <<196, 0>>, <<49, 50>>}
Response(ip, fill, port) ==
  LET field == IF Len(ip) >= 64 THEN SubSeq(ip, 1, 64)
               ELSE ip \o <<0>> \o [i \in 1..(63 - Len(ip)) |-> fill]
  IN  <<0, 2, 0, 70>> \o field \o port
Responses ==
  {Response(ip, fill, port) :
     ip \in ResponseIps, fill \in {0, 65}, port \in ResponsePorts}

NotParsed == Attempt("none", <<>>, 0)

InitParse ==
  /\ proto = ProtocolNew
  /\ state = DISCONNECTED
  /\ hs = HsIdle
  /\ run = NoRuns
  /\ peer = PeerStart
  /\ last = LastOp("new", 0, NoError, <<>>)
  /\ conv = ConvNone
  /\ player = 0
  /\ media = [p \in Pipelines |-> MediaUnborn]
  /\ udp \in {[last |-> 0, max |-> 0, response |-> r, parsed |-> NotParsed] :
               r \in Responses}

ParseResponse ==
  /\ udp.parsed = NotParsed
  /\ LET a == parse_discovery(udp.response)
     IN  /\ udp' = [udp EXCEPT !.parsed = a]
         /\ last' = LastOp("udp_discovery", 0, AttemptError(a), <<>>)
  /\ UNCHANGED <<proto, state, hs, run, peer, conv, player, media>>

NextParse == ParseResponse

SpecParse == InitParse /\ [][NextParse]_vars

(***************************************************************************)
(* One pipeline from its spawn to its exit by any cause (stop(), end of    *)
(* the source, a failing setup, codec, cipher or socket) while run() polls *)
(* a peer that acknowledges heartbeats; the codec may give empty frames    *)
(***************************************************************************)
MediaPayloads == {OpusOf(0), OpusOf(MaxOpusLen)}

NextMedia ==
  \/ SendPlaying
  \/ RunCall({TRUE}, {1})
  \/ RunPoll(BeatMsgs, {GoodScript}, MaxPlayPolls)
  \/ RunComplete({TRUE})
  \/ Stop
  \/ \E p \in Pipelines :
       \/ MediaSetup(p, BOOLEAN, BOOLEAN, BOOLEAN)
       \/ MediaChkFinished(p)
       \/ MediaChkPaused(p)
       \/ MediaChkDisc(p)
       \/ MediaFrame(p, FrameOutcomes, MediaPayloads, {RandomOf(0)})
       \/ MediaSpeakOff(p, BOOLEAN)

SpecMedia == InitPause /\ [][NextMedia]_vars

(***************************************************************************)
(* One pipeline with the acquisitions of the mutex of the engine as steps  *)
(* of their own: run() polls and the host disconnects only while the mutex *)
(* is free, the thread does its SPEAKING, its snapshot and its clone only  *)
(* while it holds it; the peer may send a SESSION_DESCRIPTION with another *)
(* key and mode                                                            *)
(***************************************************************************)
RekeyMsgs == {SessionDescriptionFrame("xsalsa20_poly1305_suffix", OtherKey)}

NextLock ==
  \/ RunCall({TRUE}, {1})
  \/ RunPoll(RekeyMsgs, {GoodScript}, MaxPlayPolls)
  \/ RunComplete({TRUE})
  \/ Disconnect
  \/ Stop
  \/ PlayerPause(CallerPlayers)
  \/ PlayerResume(CallerPlayers)
  \/ PlayerStop(CallerPlayers)
  \/ \E p \in Pipelines :
       \/ MediaAcquire(p)
       \/ Holds(p) /\ MediaSetup(p, BOOLEAN, BOOLEAN, BOOLEAN)
       \/ MediaChkFinished(p)
       \/ MediaChkPaused(p)
       \/ MediaWaitNotPaused(p)
       \/ MediaChkDisc(p)
       \/ MediaWaitConnected(p)
       \/ Holds(p) /\ MediaRebuild(p, BOOLEAN, BOOLEAN)
       \/ MediaFrame(p, {"sent", "send_err"}, {OpusOf(MaxOpusLen)}, {RandomOf(0)})
       \/ Holds(p) /\ MediaSpeakOff(p, BOOLEAN)

SpecLock == InitEither /\ [][NextLock]_vars

(***************************************************************************)
(* One pipeline whose setup, codec, cipher or socket may fail, while run() *)
(* polls a peer that acknowledges heartbeats                               *)
(***************************************************************************)
NextIsolate ==
  \/ RunCall({TRUE}, {1})
  \/ RunPoll(BeatMsgs, {GoodScript}, MaxMediaPolls)
  \/ RunComplete({TRUE})
  \/ \E p \in Pipelines :
       \/ MediaSetup(p, BOOLEAN, BOOLEAN, BOOLEAN)
       \/ MediaChkFinished(p)
       \/ MediaChkPaused(p)
       \/ MediaChkDisc(p)
       \/ MediaFrame(p, FrameOutcomes, {OpusOf(MaxOpusLen)}, {RandomOf(0)})
       \/ MediaSpeakOff(p, BOOLEAN)

SpecIsolate == InitPause /\ [][NextIsolate]_vars

(***************************************************************************)
(* One pipeline with stop() and disconnect() while run() polls and the     *)
(* peer closes with 4014 or sends a SESSION_DESCRIPTION; a media thread    *)
(* that can return from a check or from its wait is scheduled eventually   *)
(***************************************************************************)
StopMsgs ==
  {CloseFrameIn(TRUE, 4014),
   SessionDescriptionFrame("xsalsa20_poly1305_lite", SessionKey)}

MediaStep ==
  \E p \in Pipelines :
    \/ MediaSetup(p, BOOLEAN, BOOLEAN, BOOLEAN)
    \/ MediaChkFinished(p)
    \/ MediaChkPaused(p)
    \/ MediaChkDisc(p)
    \/ MediaWaitConnected(p)
    \/ MediaRebuild(p, BOOLEAN, BOOLEAN)
    \/ MediaFrame(p, {"sent"}, {OpusOf(MaxOpusLen)}, {RandomOf(0)})
    \/ MediaSpeakOff(p, BOOLEAN)

NextStop ==
  \/ RunCall({TRUE}, {1})
  \/ RunPoll(StopMsgs, {GoodScript}, MaxPolls)
  \/ RunComplete({TRUE})
  \/ Disconnect
  \/ Stop
  \/ MediaStep

\* the steps of the thread that take no input: its three checks, its return
\* from wait_until_connected() and its SPEAKING(off)
MediaWake ==
  \E p \in Pipelines :
    \/ MediaChkFinished(p)
    \/ MediaChkPaused(p)
    \/ MediaChkDisc(p)
    \/ MediaWaitConnected(p)
    \/ MediaSpeakOff(p, BOOLEAN)

SpecStop == InitPause /\ [][NextStop]_vars /\ WF_vars(MediaWake)

(***************************************************************************)
(* One pipeline whose thread is in its loop, two datagrams sent: stop()    *)
(* while run() polls and the peer sends a SESSION_DESCRIPTION. Nothing     *)
(* sets the register to DISCONNECTED or PAUSED here, so the thread is in   *)
(* its loop, never parked, whenever stop() is called                       *)
(***************************************************************************)
InitHalt ==
  /\ proto = Established.proto
  /\ state = Established.state
  /\ hs = HsEstablished
  /\ run = NoRuns
  /\ peer = PeerEstablished
  /\ last = LastOp("play", 1, NoError, <<>>)
  /\ conv = ConvNone
  /\ player = 1
  /\ media = [p \in Pipelines |->
                IF p = 1 THEN MediaAt(Established.proto, 2, MaxFrames)
                ELSE MediaUnborn]
  /\ udp = [last |-> 1, max |-> 1]

NextHalt ==
  \/ RunCall({TRUE}, {1})
  \/ RunPoll(PauseMsgs, {GoodScript}, MaxPlayPolls)
  \/ RunComplete({TRUE})
  \/ Stop
  \/ \E p \in Pipelines :
       \/ MediaChkFinished(p)
       \/ MediaChkPaused(p)
       \/ MediaChkDisc(p)
       \/ MediaFrame(p, {"sent", "dropped"}, {OpusOf(MaxOpusLen)}, {RandomOf(0)})
       \/ MediaSpeakOff(p, BOOLEAN)

SpecHalt == InitHalt /\ [][NextHalt]_vars

(***************************************************************************)
(* The established Connection with run() polling while the peer sends      *)
(* READY again: the UDP peer answers, answers wrongly, fails, or is silent; *)
(* the host disconnects or sends SPEAKING when it gets the mutex            *)
(***************************************************************************)
SilentAfter(n) ==
  [i \in 1..(MaxRetries + 1) |->
     IF i <= n THEN Attempt("no_null", "", 0)
     ELSE IF i = n + 1 THEN Attempt("silent", "", 0)
     ELSE GoodAttempt]
SilentScripts ==
  {GoodScript, FailingScript(MaxRetries + 1, "recv_err"),
   SilentAfter(0), SilentAfter(2)}
ReadyMsgs ==
  {ReadyFrame(1, "203.0.113.5", 50001, KnownList),
   TextFrame(HEARTBEAT_ACK, TRUE, NoPayload)}

NextReady ==
  \/ RunCall({TRUE}, {1})
  \/ RunPoll(ReadyMsgs, SilentScripts, MaxPolls)
  \/ RunComplete({TRUE})
  \/ Disconnect
  \/ SendPlaying

SpecReady ==
  InitRun /\ [][NextReady]_vars
  /\ WF_vars(RunPoll(ReadyMsgs, SilentScripts, MaxPolls))

(***************************************************************************)
(* The same with play(): a play() made while the thread of run() is inside *)
(* that recv waits in AudioPlayer::new, the old player stopped and no new  *)
(* thread started                                                          *)
(***************************************************************************)
NextBlock ==
  \/ RunCall({TRUE}, {1})
  \/ RunPoll(ReadyMsgs, SilentScripts, MaxPlayPolls)
  \/ RunComplete({TRUE})
  \/ Disconnect
  \/ Play({MaxPlayFrames})
  \/ \E p \in Pipelines :
       \/ PlayStart(p)
       \/ MediaSetup(p, {TRUE}, {TRUE}, {TRUE})
       \/ MediaChkFinished(p)
       \/ MediaChkPaused(p)
       \/ MediaChkDisc(p)
       \/ MediaFrame(p, {"sent"}, {OpusOf(MaxOpusLen)}, {RandomOf(0)})
       \/ MediaSpeakOff(p, {TRUE})

SpecBlock == InitRun /\ [][NextBlock]_vars

(***************************************************************************)
(* run() called more than once on the Connection: every call has a thread  *)
(* and a future of its own, all threads poll the one engine; the loop may  *)
(* be closed when a thread hands over its completion                       *)
(***************************************************************************)
NextTwice ==
  \/ RunCall(BOOLEAN, Runs)
  \/ RunPoll(PlayMsgs, {GoodScript}, MaxMediaPolls)
  \/ RunComplete(BOOLEAN)
  \/ Disconnect

SpecTwice == InitRun /\ [][NextTwice]_vars

(***************************************************************************)
(* Players made by AudioPlayer::new with sources of either type, on the    *)
(* established engine                                                      *)
(***************************************************************************)
NextSource ==
  \/ AudioPlayer_new({"Opus", "Pcm"}, {MaxPlayFrames})
  \/ \E p \in Pipelines :
       \/ MediaSetup(p, {TRUE}, {TRUE}, BOOLEAN)
       \/ MediaChkFinished(p)
       \/ MediaChkPaused(p)
       \/ MediaChkDisc(p)
       \/ MediaFrame(p, FrameOutcomes, MediaPayloads, {RandomOf(0)})
       \/ MediaSpeakOff(p, {TRUE})

SpecSource == InitRun /\ [][NextSource]_vars

(***************************************************************************)
(* One pipeline while the session moves: the host's close, then a READY    *)
(* with another port, or with port 0, and a SESSION_DESCRIPTION polled by  *)
(* run()                                                                   *)
(***************************************************************************)
MoveMsgs ==
  {ReadyFrame(1, "203.0.113.5", 50002, KnownList),
   ReadyFrame(1, "203.0.113.5", 0, KnownList),
   SessionDescriptionFrame("xsalsa20_poly1305_lite", SessionKey)}

NextMove ==
  \/ RunCall({TRUE}, {1})
  \/ RunPoll(MoveMsgs, {GoodScript}, MaxMediaPolls)
  \/ RunComplete({TRUE})
  \/ Disconnect
  \/ \E p \in Pipelines :
       \/ MediaSetup(p, BOOLEAN, BOOLEAN, BOOLEAN)
       \/ MediaChkFinished(p)
       \/ MediaChkPaused(p)
       \/ MediaChkDisc(p)
       \/ MediaWaitConnected(p)
       \/ MediaRebuild(p, BOOLEAN, BOOLEAN)
       \/ MediaFrame(p, {"sent"}, {OpusOf(MaxOpusLen)}, {RandomOf(0)})
       \/ MediaSpeakOff(p, BOOLEAN)

SpecMove == InitPause /\ [][NextMove]_vars

(***************************************************************************)
(* One pipeline: new, long-running, or with a timestamp about to wrap      *)
(***************************************************************************)
TsStarts ==
  {MediaSpawned(MaxFrames),
   MediaAt(Established.proto, LongStart, MaxFrames),
   MediaAt(Established.proto, TsStart, MaxFrames)}

InitTs ==
  /\ proto = Established.proto
  /\ state = Established.state
  /\ hs = HsEstablished
  /\ run = NoRuns
  /\ peer = PeerEstablished
  /\ conv = ConvNone
  /\ \E own \in {0, 1} : Started(own)
  /\ \E m \in TsStarts :
       /\ media = [p \in Pipelines |-> IF p = 1 THEN m ELSE MediaUnborn]
       /\ udp = IF m.sent = 0 THEN [last |-> 0, max |-> 0]
                ELSE [last |-> 1, max |-> 1]

SpecTs == InitTs /\ [][NextEnc]_vars

(***************************************************************************)
(* One pipeline in each of the three modes: new, or with lite_nonce at     *)
(* u32::MAX; sends that leave, are dropped or fail                         *)
(***************************************************************************)
EstablishedIn(mode) ==
  poll(AfterReady.proto, AfterReady.state,
       MsgEnv(SessionDescriptionFrame(mode, SessionKey)))
InitNonce ==
  /\ \E mode \in ModeStrings :
       /\ proto = EstablishedIn(mode).proto
       /\ state = EstablishedIn(mode).state
       /\ \E m \in {MediaSpawned(MaxFrames),
                     MediaAtU(EstablishedIn(mode).proto,
                              U32(U16Modulus - 1, U16Modulus - 3), MaxFrames)} :
            /\ media = [p \in Pipelines |-> IF p = 1 THEN m ELSE MediaUnborn]
            /\ udp = IF m.sent = 0 THEN [last |-> 0, max |-> 0]
                     ELSE [last |-> 1, max |-> 1]
  /\ hs = HsEstablished
  /\ run = NoRuns
  /\ peer = PeerEstablished
  /\ last = LastOp("play", 1, NoError, <<>>)
  /\ conv = ConvNone
  /\ player = 1

NextNonce ==
  \E p \in Pipelines :
    \/ MediaSetup(p, BOOLEAN, BOOLEAN, BOOLEAN)
    \/ MediaChkFinished(p)
    \/ MediaChkPaused(p)
    \/ MediaChkDisc(p)
    \/ MediaFrame(p, {"sent", "dropped", "send_err", "crypt_err"},
                  {OpusOf(MaxOpusLen)}, {RandomOf(0), RandomOf(1)})
    \/ MediaSpeakOff(p, BOOLEAN)

SpecNonce == InitNonce /\ [][NextNonce]_vars

(***************************************************************************)
(* One new pipeline in each of the three modes, with frames of several     *)
(* encoded lengths                                                         *)
(***************************************************************************)
\* what the codec may produce for a frame: nothing, two bytes, MaxOpusLen
\* bytes (more than the 12 of the header)
PacketPayloads == {OpusOf(0), OpusOf(2), OpusOf(MaxOpusLen)}

InitPacket ==
  /\ \E mode \in ModeStrings :
       /\ proto = EstablishedIn(mode).proto
       /\ state = EstablishedIn(mode).state
  /\ media = [p \in Pipelines |->
                IF p = 1 THEN MediaSpawned(MaxFrames) ELSE MediaUnborn]
  /\ udp = [last |-> 0, max |-> 0]
  /\ hs = HsEstablished
  /\ run = NoRuns
  /\ peer = PeerEstablished
  /\ last = LastOp("play", 1, NoError, <<>>)
  /\ conv = ConvNone
  /\ player = 1

NextPacket ==
  \E p \in Pipelines :
    \/ MediaSetup(p, BOOLEAN, BOOLEAN, BOOLEAN)
    \/ MediaChkFinished(p)
    \/ MediaChkPaused(p)
    \/ MediaChkDisc(p)
    \/ MediaFrame(p, {"sent", "dropped"}, PacketPayloads,
                  {RandomOf(0), RandomOf(1)})
    \/ MediaSpeakOff(p, BOOLEAN)

SpecPacket == InitPacket /\ [][NextPacket]_vars

(***************************************************************************)
(* Claims                                                                  *)
(***************************************************************************)
\* the advertised interval in whole milliseconds, as the engine keeps it
WholeMs(x) == IF x.ms < 0 THEN 0 ELSE x.ms

\* what holds once the peer has sent HELLO, READY and SESSION_DESCRIPTION in
\* this order on a healthy transport: finish_flow(false) has not failed, it
\* returns Ok at its next step, the register is Connected and the key is the
\* non-zero key received
HandshakeDone ==
  /\ hs.pc \in {"loop", "gil", "done"}
  /\ ~IsErr(hs.result)
  /\ hs.pc = "done" =>
       hs.future \in {set_result(FuturePending, PyConnection, ok) : ok \in BOOLEAN}
  /\ state = CONNECTED
  /\ proto.secret_key = peer.key
  /\ \E i \in DOMAIN proto.secret_key : proto.secret_key[i] # 0

\* C1 as stated: after HELLO{interval}, READY and SESSION_DESCRIPTION{mode,
\* key} in this order, finish_flow(false) returns Ok with the register
\* Connected, secret_key the non-zero key received and heartbeat_interval
\* equal to min(interval, 5000).
C1_AsStated ==
  (peer.stage = "described" /\ ~hs.resume) =>
    /\ HandshakeDone
    /\ F64Of(proto.heartbeat_interval) = F64Min(peer.interval, 5000)

\* C1 amended: as C1, but heartbeat_interval equals min(w, 5000) where w is
\* the advertised interval truncated to whole milliseconds by the cast to
\* u64 (0 for a negative interval).
C1_Handshake ==
  (peer.stage = "described" /\ ~hs.resume) =>
    /\ HandshakeDone
    /\ proto.heartbeat_interval = Min(WholeMs(peer.interval), 5000)

C1_Witness ==
  /\ peer.stage = "described" /\ ~hs.resume /\ hs.pc = "done"
  /\ peer.interval = F64(13, TRUE)
  /\ proto.heartbeat_interval = 13
  /\ state = CONNECTED

\* the best of a set of mode strings under Lite > Suffix > Full
BestString(known) ==
  IF "xsalsa20_poly1305_lite" \in known THEN "xsalsa20_poly1305_lite"
  ELSE IF "xsalsa20_poly1305_suffix" \in known THEN "xsalsa20_poly1305_suffix"
  ELSE "xsalsa20_poly1305"
ModeOfString(str) ==
  IF str = "xsalsa20_poly1305_lite" THEN XSalsa20Poly1305Lite
  ELSE IF str = "xsalsa20_poly1305_suffix" THEN XSalsa20Poly1305Suffix
  ELSE XSalsa20Poly1305
SelectFrames(wrote) ==
  {i \in DOMAIN wrote : wrote[i].op = SELECT_PROTOCOL}
LastReadReady ==
  /\ last.op = "poll" /\ last.read = "msg"
  /\ last.msg.t = "text" /\ last.msg.json /\ last.msg.dOk /\ last.msg.op = READY

\* C2: for every list of mode strings in READY, the mode chosen and put in
\* SELECT_PROTOCOL is the maximum under Lite > Suffix > Full of the strings
\* that name a mode; when none does, handling READY fails and no
\* SELECT_PROTOCOL is sent.
C2_Negotiation ==
  LastReadReady =>
    LET modes == last.msg.d.modes
        known == {modes[i] : i \in DOMAIN modes} \cap ModeStrings
    IN  IF known = {}
          THEN /\ IsErr(last.result)
               /\ SelectFrames(last.wrote) = {}
          ELSE /\ proto.encryption = ModeOfString(BestString(known))
               /\ \A i \in SelectFrames(last.wrote) :
                    last.wrote[i].a = BestString(known)
               /\ ~IsErr(last.result) => SelectFrames(last.wrote) # {}

C2_Witness ==
  /\ LastReadReady
  /\ last.msg.d.modes = <<"xsalsa20_poly1305_suffix", "xsalsa20_poly1305">>
  /\ \E i \in SelectFrames(last.wrote) :
       last.wrote[i].a = "xsalsa20_poly1305_suffix"

\* C3: Closed(code) becomes Reconnect when code is none of 1000, 4014, 4015
\* and ConnectionClosed when it is one of them, for every 16-bit code; every
\* other error becomes ConnectionError.
C3_Classification ==
  (conv.given /\ conv.py # NoPyErr) =>
    IF conv.err.kind = "Closed"
      THEN IF conv.err.code \in {1000, 4014, 4015}
             THEN conv.py.kind = "ConnectionClosed" /\ conv.py.code = conv.err.code
             ELSE conv.py.kind = "ReconnectError" /\ conv.py.code = conv.err.code
      ELSE conv.py.kind = "ConnectionError"

C3_Witness ==
  /\ conv.err = Closed(4015)
  /\ conv.py = ConnectionClosed(4015)

RunPolled == last.op = "poll" /\ last.arg = "run"
\* the thread of run() has left its loop of poll() calls
RunEnded == run[1].pc \in {"gil", "done"}
ResumableCloseRead ==
  /\ RunPolled
  /\ last.read = "msg"
  /\ last.msg.t = "close"
  /\ last.msg.d.has
  /\ last.msg.d.code \notin {1000, 4014, 4015}

\* the completion the error err asks for: a null result for Closed with a
\* code other than 1000, 4014, 4015, a rejection with ConnectionClosed(code)
\* for Closed with one of these codes, with ConnectionError otherwise
CompletionFor(c, err) ==
  IF err.kind = "Closed"
    THEN IF err.code \in {1000, 4014, 4015}
           THEN c.rejected /\ c.value = ConnectionClosed(err.code)
           ELSE ~c.rejected /\ c.value = PyNone
    ELSE c.rejected /\ c.value.kind = "ConnectionError"

\* C4: the thread of run() is still polling after every poll() that returned
\* Ok; the first poll() that returns an error is its last poll(): the thread
\* then waits for the interpreter lock with the future still pending, and
\* with the lock it hands one completion to the loop and ends: a null
\* result when the error is Closed with a code other than 1000, 4014, 4015,
\* a rejection with ConnectionClosed(code) for Closed with one of these
\* codes, with ConnectionError otherwise. The future is completed once, with
\* that, by a loop that takes the callback, and not at all by one that is
\* closed.
C4_RunOutcome ==
  /\ Len(run[1].future.calls) = run[1].errors
  /\ run[1].errors <= 1
  /\ (run[1].pc = "polling") => (run[1].errors = 0)
  /\ RunPolled => /\ IsErr(last.result) <=> (run[1].pc \in {"gil", "done"})
                  /\ IsErr(last.result) => (run[1].result = last.result)
  /\ (run[1].pc = "gil") => (IsErr(run[1].result) /\ run[1].future = FuturePending)
  /\ (run[1].pc = "done") =>
       /\ IsErr(run[1].result)
       /\ Len(run[1].future.calls) = 1
       /\ CompletionFor(run[1].future.calls[1], run[1].result)
       /\ run[1].future.sets <= 1
       /\ (run[1].future.sets = 1) =>
            (Completion(run[1].future.rejected, run[1].future.value)
               = run[1].future.calls[1])
       /\ (run[1].future.sets = 0) =>
            (run[1].future.value = NoPyErr /\ ~run[1].future.rejected)

C4_Witness ==
  /\ RunPolled
  /\ run[1].polls >= 2
  /\ run[1].pc = "done"
  /\ last.result = Closed(4014)
  /\ run[1].future = set_exception(FuturePending, ConnectionClosed(4014), TRUE)

\* C5 as the specification states it: once the thread of run() has read a
\* Close frame with a resumable code and has completed the future, the future
\* is rejected with a Reconnect error that carries the code.
C5_AsStated ==
  (ResumableCloseRead /\ run[1].pc = "done") =>
    /\ run[1].future.rejected
    /\ run[1].future.value = ReconnectError(last.msg.d.code)

\* C5: after the thread of run() has read a Close frame with a resumable
\* code, it polls no more and the future is never rejected: it is pending
\* while the thread waits for the interpreter lock, and then completed once
\* with a null result (or left pending by a loop that is closed); the code
\* is not carried by the future, it is the remembered close code of the
\* engine, and the register is Disconnected.
C5_ResumableClose ==
  ResumableCloseRead =>
    /\ \/ run[1].pc = "gil" /\ run[1].future = FuturePending
       \/ /\ run[1].pc = "done"
          /\ run[1].future \in {set_result(FuturePending, PyNone, ok) :
                                   ok \in BOOLEAN}
    /\ proto.close_code = last.msg.d.code
    /\ state = DISCONNECTED

C5_Witness ==
  /\ ResumableCloseRead
  /\ last.msg.d.code = 4006
  /\ run[1].future = set_result(FuturePending, PyNone, TRUE)
  /\ proto.close_code = 4006

\* C6 as the specification states it: a media thread that has left its loop
\* without an error, and whose player was not stopped by stop() or by a later
\* play(), has built at least one packet from its decoder (every decoder
\* here has a frame to give).
C6_AsStated ==
  \A p \in Pipelines :
    (/\ media[p].pc \in {"speak_off", "done"}
     /\ ~media[p].stopped
     /\ ~IsErr(media[p].err)) => (media[p].built >= 1)

\* C7 as the specification states it: the datagram sent last is never one of
\* a thread started by an earlier play() than some thread that has already
\* sent a datagram.
C7_AsStated == udp.last >= udp.max

\* C8 as the specification states it: after a stop() that was called while no
\* media thread was alive, the register is what it was before the call.
C8_AsStated ==
  (last.op = "stop" /\ last.read = "idle") => (state = last.arg)

\* C9: after close(code) the register is Disconnected and the remembered close
\* code is code, whether the close frame could be written or not; a close
\* that succeeded wrote the close frame with that code; disconnect() has the
\* effect of close(1000).
C9_Close ==
  /\ (last.op = "close") =>
       /\ state = DISCONNECTED
       /\ proto.close_code = last.arg
       /\ ~IsErr(last.result) => (last.wrote = <<CloseFrameOut(last.arg)>>)
  /\ (last.op = "disconnect") =>
       /\ state = DISCONNECTED
       /\ proto.close_code = 1000
       /\ ~IsErr(last.result) => (last.wrote = <<CloseFrameOut(1000)>>)

C9_Witness ==
  /\ last.op = "close"
  /\ last.arg = 4014
  /\ IsErr(last.result)
  /\ last.wrote = <<>>
  /\ state = DISCONNECTED
  /\ proto.close_code = 4014

\* C10: the header of the n-th packet an AudioEncoder builds carries the
\* sequence n modulo 2^16 (the first packet carries 1), and the sequence of
\* every packet is the sequence of the packet before it plus 1 modulo 2^16,
\* whatever pauses, resumes and dropped sends lie between the two.
C10_Sequence ==
  \A p \in Pipelines :
    /\ (media[p].built >= 1) =>
         (media[p].hdr.sequence = media[p].built % 65536)
    /\ (media[p].built >= 2) =>
         (media[p].hdr.sequence = (media[p].prev_sequence + 1) % 65536)

C10_Witness ==
  /\ media[1].built = 65536
  /\ media[1].hdr.sequence = 0
  /\ media[1].prev_sequence = 65535
  /\ media[1].dropped >= 1
  /\ last.op = "resume"

\* C11: once k datagrams of an AudioEncoder have left, its timestamp is
\* 960 * k modulo 2^32, and the k-th of them carried 960 * (k - 1) modulo 2^32
\* in its header; a dropped send leaves the timestamp what the header of the
\* dropped packet carries, while that header already has the sequence of the
\* packet before plus 1.
C11_Timestamp ==
  \A p \in Pipelines :
    LET m == media[p]
    IN  /\ m.enc.timestamp = Times960(m.left)
        /\ (m.how = "sent") => (m.hdr.timestamp = Times960(m.left - 1))
        /\ (m.how = "dropped") =>
             /\ m.hdr.timestamp = m.enc.timestamp
             /\ m.hdr.sequence = m.enc.sequence
             /\ (m.built >= 2) =>
                  (m.hdr.sequence = (m.prev_sequence + 1) % 65536)

C11_Witness ==
  /\ media[1].left = 4473925
  /\ media[1].how = "sent"
  /\ media[1].hdr.timestamp = U32(65535, 65280)
  /\ media[1].enc.timestamp = U32(0, 704)
  /\ media[1].dropped >= 1

\* the successor of a u32 modulo 2^32
U32Succ(x) ==
  IF x.lo < 65535 THEN U32(x.hi, x.lo + 1)
  ELSE IF x.hi < 65535 THEN U32(x.hi + 1, 0)
  ELSE U32(0, 0)

\* C12: in each of the three modes, every packet the builder builds and
\* hands to send_to advances lite_nonce by exactly 1 modulo 2^32, whether
\* the datagram leaves, is dropped or send_to fails
C12_LiteNonce ==
  [][\A p \in Pipelines :
       (/\ media'[p].built = media[p].built + 1
        /\ media[p].pc = "frame"
        /\ media'[p].how \in {"sent", "dropped", "send_err"})
       => /\ media'[p].enc.lite_nonce = U32Succ(media[p].enc.lite_nonce)
          /\ media'[p].enc.encrypter = proto.encryption]_vars
C12_Witness ==
  /\ media[1].enc.lite_nonce = U32(0, 0)
  /\ media[1].built = 3
  /\ media[1].how = "dropped"
  /\ media[1].enc.encrypter = XSalsa20Poly1305Suffix
  /\ media[1].hdr.sequence = 0

\* the receiver's side of a datagram d in a mode: the tail, the nonce
\* rebuilt from it, the box between header and tail
TailLen(mode) == IF mode = XSalsa20Poly1305Lite THEN 4 ELSE NONCE_SIZE
Last(d, n) == [i \in 1..n |-> d[Len(d) - n + i]]
TailOf(mode, d) == Last(d, TailLen(mode))
NonceOfTail(mode, d) ==
  IF mode = XSalsa20Poly1305Lite THEN TailOf(mode, d) \o Zeros(NONCE_SIZE - 4)
  ELSE TailOf(mode, d)
BoxOf(mode, d) ==
  [i \in 1..(Len(d) - BUFFER_OFFSET - TailLen(mode)) |-> d[BUFFER_OFFSET + i]]
\* a datagram of this pipeline left with the last frame
Produced(p) == media[p].how = "sent" /\ media[p].dgram # <<>>

\* C13 as stated: for a datagram the pipeline produces from a PCM frame, in
\* any mode, the bytes that were encrypted are exactly the opus bytes the
\* codec produced for that frame, and decrypting the datagram with the
\* session key and the nonce rebuilt from its tail gives those bytes back
C13_AsStated ==
  \A p \in Pipelines :
    Produced(p) =>
      LET m == media[p]
          back == decrypt(m.enc.key, NonceOfTail(m.enc.encrypter, m.dgram),
                          BoxOf(m.enc.encrypter, m.dgram))
      IN  /\ m.plain = m.opus
          /\ back.ok
          /\ back.val = m.opus

\* C14 as stated: in Full mode the nonce is the 12-byte header zero-padded
\* to 24 bytes and the datagram ends with these 24 bytes; in Suffix mode the
\* nonce is the 24 random bytes and the datagram ends with them; in Lite
\* mode the nonce is the big-endian lite_nonce zero-padded to 24 bytes and
\* the datagram ends with its first 4 bytes
C14_AsStated ==
  \A p \in Pipelines :
    Produced(p) =>
      LET m == media[p]
          d == m.dgram
          mode == m.enc.encrypter
      IN  /\ Len(m.nonce) = NONCE_SIZE
          /\ Len(d) = BUFFER_OFFSET + Len(m.opus) + TAG_SIZE + TailLen(mode)
          /\ (mode = XSalsa20Poly1305) =>
                /\ m.nonce = [i \in 1..BUFFER_OFFSET |-> d[i]]
                                \o Zeros(NONCE_SIZE - BUFFER_OFFSET)
                /\ TailOf(mode, d) = m.nonce
          /\ (mode = XSalsa20Poly1305Suffix) =>
                /\ m.nonce \in {RandomOf(0), RandomOf(1)}
                /\ TailOf(mode, d) = m.nonce
          /\ (mode = XSalsa20Poly1305Lite) =>
                /\ \A i \in 5..NONCE_SIZE : m.nonce[i] = 0
                /\ TailOf(mode, d) = [i \in 1..4 |-> m.nonce[i]]

\* the last operation was a poll() that read a well-formed HELLO
LastReadHello == last.op = "poll" /\ last.read = "msg" /\ IsHello(last.msg)

\* C15 as stated: in every state of the engine, from its construction on,
\* heartbeat_interval is at most 5000 ms
C15_AsStated == proto.heartbeat_interval <= 5000

\* C15 amended: the engine is constructed with heartbeat_interval u64::MAX
\* and keeps it until a HELLO is handled; every poll() that reads a HELLO
\* leaves it at most 5000 ms, whatever the peer advertises, and from then on
\* it is at most 5000 ms in every state
C15_Interval ==
  /\ proto.heartbeat_interval = U64_MAX
  /\ [][\/ proto'.heartbeat_interval <= 5000
         \/ /\ proto'.heartbeat_interval = U64_MAX
            /\ proto.heartbeat_interval = U64_MAX
            /\ ~LastReadHello']_vars
C15_Witness ==
  /\ LastReadHello
  /\ last.msg.d.heartbeat_interval = F64Of(41250)
  /\ proto.heartbeat_interval = 5000

\* the last operation was a poll() that read a well-formed SESSION_DESCRIPTION
\* naming a mode the client implements
LastReadDescription ==
  /\ last.op = "poll" /\ last.read = "msg"
  /\ last.msg.t = "text" /\ last.msg.json /\ last.msg.dOk
  /\ last.msg.op = SESSION_DESCRIPTION
  /\ last.msg.d.mode \in ModeStrings

\* C16 as stated: secret_key is all-zero exactly as long as no
\* SESSION_DESCRIPTION has been processed, and the register has been set to
\* Connected by the engine exactly when secret_key is non-zero
C16_AsStated ==
  /\ LastReadDescription => ~key_is_zero(proto.secret_key)
  /\ (state = CONNECTED) => ~key_is_zero(proto.secret_key)

\* C16 amended: the engine starts with an all-zero secret_key and the
\* register not Connected; a poll() that processes a SESSION_DESCRIPTION
\* stores the key it carries, zero or not, and sets the register to
\* Connected; no other step changes secret_key or sets the register to
\* Connected. So a non-zero secret_key means that a SESSION_DESCRIPTION was
\* processed and Connected was set, but not the converse
C16_SecretKey ==
  /\ key_is_zero(proto.secret_key) /\ state # CONNECTED
  /\ [][IF LastReadDescription'
          THEN /\ proto'.secret_key = last'.msg.d.secret_key
               /\ state' = CONNECTED
          ELSE /\ proto'.secret_key = proto.secret_key
               /\ (state' = CONNECTED) => (state = CONNECTED)]_vars
C16_Witness ==
  /\ LastReadDescription
  /\ key_is_zero(last.msg.d.secret_key)
  /\ key_is_zero(proto.secret_key)
  /\ state = CONNECTED
  /\ hs.pc = "loop"

\* the last operation was a poll() of run() that wrote a HEARTBEAT first
BeatWritten ==
  /\ last.op = "poll" /\ last.arg = "run"
  /\ last.wrote # <<>>
  /\ last.wrote[1] = HeartbeatFrame

\* C17: a poll() entered with at least heartbeat_interval ms elapsed since
\* the last heartbeat (or since HELLO) writes a HEARTBEAT before it reads,
\* unless that write fails and poll() returns the error, and the time since
\* the last heartbeat is then no more than the read of this poll() took; and
\* with run() polling, a heartbeat that is due is written by the next
\* poll(), or run() ends with the error of the write
C17_Heartbeat ==
  /\ [][(/\ run'[1].polls = run[1].polls + 1
         /\ proto.elapsed >= proto.heartbeat_interval)
        => IF last'.read = ""
             THEN /\ IsErr(last'.result)
                  /\ last'.wrote = <<>>
                  /\ RunEnded'
             ELSE /\ BeatWritten'
                  /\ proto'.elapsed <= last'.wait]_vars
  /\ \A n \in 0..(MaxPolls - 1) :
       (run[1].pc = "polling" /\ run[1].polls = n
          /\ proto.elapsed >= proto.heartbeat_interval)
         ~> (run[1].polls = n + 1 /\ (BeatWritten \/ RunEnded))
C17_Witness ==
  /\ BeatWritten
  /\ last.read = "timeout"
  /\ run[1].polls = 3
  /\ proto.heartbeat_interval = 4999
  /\ proto.elapsed = 5000
  /\ Len(proto.recent_acks) >= 1

\* C18 as stated: between a pause() called while the media thread runs and
\* the next resume(), the thread sends no datagram except the one of the
\* iteration that was past its pause check when pause() was called, whatever
\* frames the engine reads in between
C18_AsStated ==
  [][\A p \in Pipelines :
       (media'[p].sent = media[p].sent + 1)
         => (~media[p].held \/ media[p].grace)]_vars

\* C19 as stated: a media thread parked in wait_until_connected() after a
\* terminal close leaves its wait and terminates once stop() has set the
\* register to FINISHED
C19_AsStated ==
  \A p \in Pipelines :
    (/\ media[p].pc = "wait_connected"
     /\ media[p].stopped
     /\ state = FINISHED
     /\ run[1].pc = "done"
     /\ run[1].result = Closed(4014))
      ~> (media[p].pc = "done")

\* the poll() just made handled a READY and ran the discovery
DiscoveryRan == last.op = "poll" /\ last.discovery.attempts > 0
FirstOk(script) ==
  LET oks == {i \in 1..Len(script) : AttemptOk(script[i])}
  IN  IF oks = {} THEN 0 ELSE CHOOSE i \in oks : \A j \in oks : i <= j

\* C20: a READY whose discovery runs calls udp_discovery until an attempt
\* succeeds, at most 1 + 5 times; it goes on (SELECT_PROTOCOL with the
\* address of the first valid answer, or the error of its write) when one of
\* the first six attempts succeeds, fails with the error of the sixth attempt
\* when all six fail, and never sends more than six requests
C20_Discovery ==
  DiscoveryRan =>
    LET sc == last.script
        first == FirstOk(sc)
        made == last.discovery.attempts
    IN  /\ made = (IF first = 0 THEN MaxRetries + 1 ELSE first)
        /\ last.discovery.requests
             = Cardinality({i \in 1..made : AttemptSends(sc[i])})
        /\ last.discovery.requests <= MaxRetries + 1
        /\ first = 0 => last.result = AttemptError(sc[MaxRetries + 1])
        /\ first # 0 =>
             \/ last.result = WebSocketErr
             \/ /\ last.result = NoError
                /\ last.wrote # <<>>
                /\ last.wrote[Len(last.wrote)]
                     = SelectProtocolFrame(sc[first].ip, sc[first].port,
                                           proto.encryption)

\* five malformed answers and a receive error: six requests, the error is
\* the one of the sixth attempt
C20_Witness ==
  /\ DiscoveryRan
  /\ last.script = MixedScript("no_null", "recv_err")
  /\ last.discovery = [attempts |-> MaxRetries + 1, requests |-> MaxRetries + 1]
  /\ last.result = Io("recv")
  /\ hs.pc = "done"
  /\ hs.result = Io("recv")

\* C21: a media thread attempts SPEAKING(microphone) first, before any
\* datagram, and has written it when a datagram of its own has left; once it
\* has exited, whatever ended its loop, it has attempted exactly one
\* SPEAKING(0), after its last datagram, and none before; the result of that
\* attempt changes neither the error the thread reports nor anything else
C21_Speaking ==
  /\ [](\A p \in Pipelines :
         LET m == media[p]
         IN  /\ m.pc \notin {"unborn", "setup"} =>
                  /\ Len(m.speak) >= 1
                  /\ m.speak[1].flags = MICROPHONE
                  /\ m.speak[1].sent = 0
             /\ m.sent >= 1 => m.speak[1].ok
             /\ m.pc # "done" => Len(m.speak) <= 1
             /\ m.pc = "done" =>
                  /\ Len(m.speak) = 2
                  /\ m.speak[2].flags = SPEAKING_OFF
                  /\ m.speak[2].sent = m.sent)
  /\ [][\A p \in Pipelines :
          (media[p].pc = "speak_off" /\ media'[p].pc = "done") =>
            /\ media'[p].err = media[p].err
            /\ media'[p].sent = media[p].sent
            /\ <<proto, state, run>>' = <<proto, state, run>>]_vars

\* the cipher failed on the second frame and the SPEAKING(0) could not be
\* written
C21_Witness ==
  /\ media[1].pc = "done"
  /\ media[1].err = Nacl
  /\ media[1].sent = 1
  /\ media[1].speak = <<[flags |-> MICROPHONE, ok |-> TRUE, sent |-> 0],
                        [flags |-> SPEAKING_OFF, ok |-> FALSE, sent |-> 1]>>

\* the decoder subprocess of pipeline p was spawned and has been killed:
\* Drop for FFmpegPCMAudio runs when the last Arc of the source is dropped
DecoderKilled(p) == media[p].pc # "unborn" /\ media[p].source = {}

\* C22 as stated: once the media thread of a pipeline has exited, its
\* decoder is killed, with no further play() of the host
C22_AsStated ==
  \A p \in Pipelines : media[p].pc = "done" => DecoderKilled(p)

\* bytes lo..hi of a buffer, counted from 0 as the program does
Bytes(buffer, lo, hi) == SubSeq(buffer, lo + 1, hi + 1)
HasZero(bytes) == \E i \in 1..Len(bytes) : bytes[i] = 0
UpToZero(bytes) ==
  SubSeq(bytes, 1, (CHOOSE i \in 1..Len(bytes) :
                      bytes[i] = 0 /\ \A j \in 1..(i - 1) : bytes[j] # 0) - 1)
Parsed == udp.parsed # NotParsed

\* C23 as stated, reading the range as bytes 4 to 68 both included and the
\* second half for addresses that are strings: a response with no zero byte
\* in the range is rejected with a parse error whatever bytes 68-69 are; one
\* with a zero byte there gives the bytes from offset 4 to the first zero as
\* the address and the big-endian u16 of bytes 68-69 as the port
C23_AsStated ==
  Parsed =>
    LET r == udp.response
        range == Bytes(r, 4, 68)
    IN  /\ ~HasZero(range) =>
             /\ udp.parsed.kind \in {"no_null", "bad_utf8"}
             /\ IsErr(last.result)
        /\ (HasZero(range) /\ utf8_valid(UpToZero(range))) =>
             udp.parsed = Attempt("ok", UpToZero(range), r[69] * 256 + r[70])

\* the NegotiatedSession of an engine
Session(p) ==
  <<p.ssrc, p.endpoint_ip, p.port, p.encryption, p.secret_key,
    p.heartbeat_interval, p.socket>>
\* this step is a poll() of run()
RunPolls == run'[1].polls = run[1].polls + 1

\* C24: a poll() whose read times out returns Ok, leaves the session, the
\* ack ring, the remembered close code and the register as they were and
\* run() polling; it has written nothing but the heartbeat that was due
C24_Timeout ==
  [][(RunPolls /\ last'.read = "timeout") =>
       /\ last'.result = NoError
       /\ Session(proto') = Session(proto)
       /\ proto'.recent_acks = proto.recent_acks
       /\ proto'.close_code = proto.close_code
       /\ state' = state
       /\ run'[1].pc = "polling" /\ run'[1].future = run[1].future
       /\ last'.wrote = IF HeartbeatDue(proto) THEN <<HeartbeatFrame>> ELSE <<>>]_vars

\* a timed-out read after an acknowledged heartbeat, with a heartbeat sent
\* before it
C24_Witness ==
  /\ RunPolled
  /\ last.read = "timeout"
  /\ last.wrote = <<HeartbeatFrame>>
  /\ Len(proto.recent_acks) >= 1
  /\ state = CONNECTED
  /\ run[1].polls >= 2

\* the last operation was a poll() of run() that read a well-formed frame
\* with an opcode the engine does not handle
ReadIgnored ==
  /\ last.op = "poll" /\ last.arg = "run" /\ last.read = "msg"
  /\ last.msg.t = "text" /\ last.msg.json
  /\ last.msg.op \notin {HELLO, READY, HEARTBEAT, HEARTBEAT_ACK, SESSION_DESCRIPTION}

\* C25: a poll() that reads a frame with an opcode other than HELLO, READY,
\* HEARTBEAT, HEARTBEAT_ACK and SESSION_DESCRIPTION returns Ok, writes
\* nothing after the read (only the heartbeat that was due before it) and
\* leaves the session, the ack ring and the register as they were
C25_Ignored ==
  [][(RunPolls /\ ReadIgnored') =>
       /\ last'.result = NoError
       /\ Session(proto') = Session(proto)
       /\ proto'.recent_acks = proto.recent_acks
       /\ proto'.close_code = proto.close_code
       /\ state' = state
       /\ run'[1].pc = "polling" /\ run'[1].future = run[1].future
       /\ last'.wrote = IF HeartbeatDue(proto) THEN <<HeartbeatFrame>> ELSE <<>>]_vars

\* an unknown opcode read when no heartbeat was due
C25_Witness ==
  /\ ReadIgnored
  /\ last.msg.op = UnknownOpcode
  /\ last.wrote = <<>>
  /\ last.result = NoError
  /\ Len(proto.recent_acks) >= 1
  /\ state = CONNECTED

\* C26: a step of a media thread that ends its loop with an error, and every
\* step of a thread that has an error, leaves the register, the session and
\* run() as they were; the future of run() is completed only by the thread
\* of run() after a poll() of its own that returned an error; and a poll() of
\* run() entered with a
\* heartbeat due writes it (or returns the error of that write), whatever
\* the media thread has done
C26_Isolated ==
  /\ [][\A p \in Pipelines :
          (media'[p] # media[p] /\ IsErr(media'[p].err)) =>
            /\ state' = state
            /\ Session(proto') = Session(proto)
            /\ proto'.close_code = proto.close_code
            /\ run' = run]_vars
  /\ [][(run'[1].future # run[1].future \/ run'[1].pc # run[1].pc) =>
          \/ run[1].pc = "none" /\ run'[1].pc = "polling" /\ run'[1].future = run[1].future
          \/ RunPolls /\ IsErr(last'.result) /\ run'[1].future = run[1].future
          \/ /\ run[1].pc = "gil" /\ IsErr(run[1].result) /\ run'[1].pc = "done"
             /\ run'[1].future.sets = 1]_vars
  /\ [][(RunPolls /\ HeartbeatDue(proto)) =>
          (BeatWritten' \/ (last'.read = "" /\ IsErr(last'.result)))]_vars

\* the socket failed on the first frame, the thread is done, and run() has
\* since written a heartbeat and goes on polling
C26_Witness ==
  /\ media[1].pc = "done"
  /\ media[1].err = Io("send_to")
  /\ media[1].built = 1
  /\ BeatWritten
  /\ last.result = NoError
  /\ run[1].pc = "polling"
  /\ run[1].future = FuturePending
  /\ state = CONNECTED

\* C27: a media thread that is about to read, encode, send and sleep (pc
\* "frame"), that waits on the condition of the register, or that is at one
\* of the checks of its loop does not hold the mutex of the engine; it holds
\* it only where it sends SPEAKING, builds its encoder from the engine and
\* clones the socket; and the engine, the register and run() change while a
\* thread holds the mutex only by that thread or by calls that do not lock
C27_Lock ==
  /\ [](\A p \in Pipelines :
          /\ media[p].pc \in {"frame", "wait_not_paused", "wait_connected",
                              "chk_finished", "chk_paused", "chk_disc",
                              "unborn", "new", "done"}
               => media[p].mutex = "none"
          /\ media[p].mutex = "held"
               => media[p].pc \in {"setup", "rebuild", "speak_off"})
  /\ [][\A p \in Pipelines :
          (media[p].mutex = "held" /\ media'[p].mutex = "held") =>
            /\ proto' = proto
            /\ run'[1].polls = run[1].polls
            /\ media'[p].sent = media[p].sent]_vars

\* the thread holds the mutex to rebuild after a reconnect, having sent a
\* datagram before
C27_Witness ==
  /\ media[1].mutex = "held"
  /\ media[1].pc = "rebuild"
  /\ media[1].sent >= 1
  /\ state = CONNECTED

\* C28 as stated: every datagram a media thread sends is built with the
\* key, the ssrc and the mode the engine holds when it is sent
C28_AsStated ==
  [][\A p \in Pipelines :
       (media'[p].sent = media[p].sent + 1) =>
         /\ media'[p].enc.key = proto.secret_key
         /\ media'[p].enc.ssrc = proto.ssrc
         /\ media'[p].enc.encrypter = proto.encryption]_vars

\* a HELLO has been processed: heartbeat_interval left its initial value
HelloProcessed == proto.heartbeat_interval # U64_MAX
\* a READY has been handled to its end: the UDP socket is stored
ReadyHandled == proto.socket # NoSocket

\* C29 as stated: IDENTIFY or RESUME is written only after a HELLO was
\* received, SELECT_PROTOCOL only by a poll() that handled a READY, and the
\* register is Connected only with the UDP socket of a READY in place
C29_AsStated ==
  /\ (last.op = "identify" /\ last.wrote # <<>>) => HelloProcessed
  /\ (last.op = "poll" /\ last.wrote # <<>> /\ last.discovery.attempts > 0)
       => (last.msg.op = READY /\ ReadyHandled)
  /\ (state = CONNECTED) => ReadyHandled

\* the step is an iteration whose frame has pre-encryption size zero: a
\* frame is taken from the source, no packet is built, the loop goes on
EmptyFrame(p) ==
  /\ media[p].pc = "frame"
  /\ media'[p].src = media[p].src - 1
  /\ media'[p].built = media[p].built
  /\ media'[p].pc = "chk_finished"

\* the step leaves the datagram count and the packet counters as they were
CountersKept(p) ==
  /\ media'[p].sent = media[p].sent
  /\ media'[p].enc.sequence = media[p].enc.sequence
  /\ media'[p].enc.timestamp = media[p].enc.timestamp
  /\ media'[p].enc.lite_nonce = media[p].enc.lite_nonce
  /\ udp' = udp

\* C30 as stated: an iteration with an empty frame sends nothing, keeps
\* sequence, timestamp and lite_nonce, and still sleeps until next_iteration
\* as an iteration that sent a datagram does
C30_AsStated ==
  [][\A p \in Pipelines :
       EmptyFrame(p) => (CountersKept(p) /\ media'[p].slept)]_vars

\* C31 as stated: a thread that was in its loop when stop() was called
\* leaves the loop at the is_finished() check at the top of its next
\* iteration, so that it sends at most one more datagram, whatever run()
\* polls in between
C31_AsStated ==
  [][\A p \in Pipelines :
       (/\ media[p].stopped
        /\ media[p].pc = "chk_finished"
        /\ media'[p].pc # "chk_finished")
         => media'[p].pc = "speak_off"]_vars

\* the thread of the current pipeline is past the checks of its iteration
\* and about to read and send a frame, the register neither PAUSED nor
\* DISCONNECTED nor FINISHED
Transmitting ==
  /\ player # 0
  /\ media[player].pc = "frame"
  /\ state \in {CONNECTED, PLAYING}
\* the thread of the current pipeline has returned
CurrentExited == player # 0 /\ media[player].pc = "done"

\* C32 as stated: is_playing() is true whenever the thread of the current
\* pipeline is transmitting, and false once that thread has exited
C32_AsStated ==
  /\ Transmitting => Connection_is_playing
  /\ CurrentExited => ~Connection_is_playing

\* C33 as stated: a poll() of run() that returns an error leaves the
\* register at DISCONNECTED
C33_AsStated ==
  [][(RunPolls /\ IsErr(last'.result)) => state' = DISCONNECTED]_vars

\* the step encrypts a packet of thread p
Encrypts(p) == media'[p].built = media[p].built + 1

\* C34 as stated: in the modes whose nonce comes from the header or from
\* lite_nonce, a thread never encrypts with a nonce it has used before under
\* the same key, rebuilds of its encoder included
C34_AsStated ==
  [][\A p \in Pipelines :
       (/\ Encrypts(p)
        /\ media[p].enc.encrypter \in
             {XSalsa20Poly1305, XSalsa20Poly1305Lite})
         => [key |-> media[p].enc.key, nonce |-> media'[p].nonce]
              \notin media[p].used]_vars

\* the step sends a datagram of thread p
Sends(p) == media'[p].sent = media[p].sent + 1

\* C35 as stated: every datagram goes to the address and port the socket the
\* thread holds is connected to, after a rebuild that of the new socket
C35_AsStated ==
  [][\A p \in Pipelines :
       (Sends(p) /\ peer_addr(media[p].sock).ok)
         => media'[p].dest = peer_addr(media[p].sock).val]_vars

\* C36 as stated: a thread of run() that is inside handle_ready returns from
\* it, whatever the UDP peer does
C36_AsStated == (run[1].pc = "recv") ~> (run[1].pc # "recv")

====
